---- MODULE Spec2Model ----
(***************************************************************************)
(* State-machine model of the news classification pipeline:                *)
(*   src/ai.py   embedding providers, anchor catalog, classifier           *)
(*   src/db.py   persisted article store, deduplication, diversity picks   *)
(*   src/pipeline/manager.py   ContentManager.filter_and_save_new          *)
(* Scores are integers in hundredths (score 6.5 is 650).  Optional values  *)
(* are sequences: None is <<>>, a present value v is <<v>>.                *)
(***************************************************************************)
EXTENDS Integers, Sequences, FiniteSets, TLC

VARIABLES
    \* AIEngine (src/ai.py)
    engine_pc,          \* "new" | "ready" | "returned" | "raised"
    anchor_embeddings,  \* <<>> (None) or the vectors bound to the first categories
    anchor_method,      \* "None" | "cloudflare" | "local" | "regex"
    calls,              \* provider calls of the last engine operation, in order
    engine_articles,    \* the texts of the articles of the last process_articles call
    processed,          \* the list returned by the last process_articles call
    \* CloudflareEmbedding.generate_embeddings (src/ai.py)
    cf_pc,              \* "idle" | "request" (a request is in flight) | "done"
    is_configured,      \* credentials present
    cf_texts,           \* the texts of the current call
    cf_i,               \* start index (0-based) of the current chunk
    cf_attempt,         \* attempt number of the request in flight
    all_embeddings,     \* vectors accumulated so far
    cf_result,          \* the value returned: <<>> (None) or <<list>>
    cf_log,             \* requests, answers and sleeps of the current call, in order
    \* DatabaseManager (src/db.py)
    store,              \* the news_articles table: records in insertion order
    is_connected,       \* the connection was made at construction
    db_pc,              \* "idle" | "fetched" | "saved" | "selected" | "marked"
    db_ret,             \* the count returned by the last save or mark
    candidates,         \* response.data of the last pending query
    sel_limit,          \* the limit of the last selection
    selected,           \* the list returned by the last selection
    \* two pipeline instances saving concurrently (src/db.py, src/pipeline/manager.py)
    race,               \* per instance: position in its save and what it holds
    \* RSSParser.parse_feeds and NewsPipeline.run (src/parser.py, src/main.py)
    run,                \* the run in progress: position and local values
    \* LocalEmbedding (src/ai.py)
    local_embedding     \* the object's fields, position and last result

engineVars == <<engine_pc, anchor_embeddings, anchor_method, calls, engine_articles,
                processed>>
cfVars == <<cf_pc, is_configured, cf_texts, cf_i, cf_attempt, all_embeddings,
            cf_result, cf_log>>
dbVars == <<store, is_connected, db_pc, db_ret, candidates, sel_limit, selected>>
vars == <<engineVars, cfVars, dbVars, race, run, local_embedding>>

None == <<>>
Some(v) == <<v>>
IsNone(o) == o = <<>>
Val(o) == o[1]

(***************************************************************************)
(* The state of each component before it is used.                          *)
(***************************************************************************)
\* AIEngine.__init__ before _initialize_anchors
EngineInit ==
    /\ engine_pc = "new"
    /\ anchor_embeddings = None
    /\ anchor_method = "None"
    /\ calls = <<>>
    /\ engine_articles = <<>>
    /\ processed = <<>>

\* CloudflareEmbedding.__init__ with credentials
CFIdle ==
    /\ cf_pc = "idle"
    /\ is_configured = TRUE
    /\ cf_texts = <<>>
    /\ cf_i = 0
    /\ cf_attempt = 0
    /\ all_embeddings = <<>>
    /\ cf_result = None
    /\ cf_log = <<>>

\* DatabaseManager.__init__ over an empty table
DBIdle ==
    /\ store = <<>>
    /\ is_connected = TRUE
    /\ db_pc = "idle"
    /\ db_ret = 0
    /\ candidates = <<>>
    /\ sel_limit = 0
    /\ selected = <<>>

\* no pipeline instance is saving
RaceIdle == race = <<>>

\* a LocalEmbedding just constructed, library installed, nothing loaded
LocalIdle ==
    local_embedding = [pc |-> "idle", is_available |-> TRUE, model |-> <<>>,
                       model_name |-> <<>>, loaded |-> 0, attempts |-> 0,
                       ncalls |-> 0, asked |-> FALSE, result |-> <<>>, used |-> <<>>]

\* no pipeline run is in progress
RunIdle == run = <<>>

(***************************************************************************)
(* Bounds of the model.                                                    *)
(***************************************************************************)
\* largest batch handed to process_articles
MaxBatch == 3
\* vector length of the remote tier (768 in the code, scaled down)
DimRemote == 3
\* vector length of the local tier (384 in the code, scaled down)
DimLocal == 2

Min(a, b) == IF a <= b THEN a ELSE b

\* a / b rounded to the nearest integer (b > 0)
RoundDiv(a, b) ==
    IF a >= 0 THEN (2 * a + b) \div (2 * b)
    ELSE -((2 * (-a) + b) \div (2 * b))

(***************************************************************************)
(* config.py: the taxonomy.                                                *)
(***************************************************************************)
\* the keys of CATEGORY_ANCHORS in declaration order
AnchorCats ==
    <<"WELFARE", "ALERTS", "WAR_GEO", "POLITICS", "FINANCE", "TECH_SCI", "NOISE">>

\* the keys of REGEX_FALLBACK in declaration order
RegexCats ==
    <<"WELFARE", "ALERTS", "WAR_GEO", "TECH_SCI", "FINANCE", "POLITICS", "NOISE">>

NCat == Len(AnchorCats)

AnchorCatSet == {AnchorCats[i] : i \in 1..NCat}

\* the fixed enumerated category set
Categories == AnchorCatSet \cup {"GENERAL"}

\* CATEGORY_ANCHORS.get(c, {}).get("weight", 0)
Weight(c) ==
    CASE c = "WELFARE" -> 14
      [] c = "ALERTS" -> 10
      [] c = "WAR_GEO" -> 9
      [] c = "POLITICS" -> 8
      [] c = "FINANCE" -> 7
      [] c = "TECH_SCI" -> 6
      [] c = "NOISE" -> -100
      [] OTHER -> 0

\* CATEGORY_ANCHORS[c].get("priority", 99)
Priority(c) ==
    CASE c = "WELFARE" -> 1
      [] c = "ALERTS" -> 2
      [] c = "WAR_GEO" -> 3
      [] c = "POLITICS" -> 4
      [] c = "FINANCE" -> 5
      [] c = "TECH_SCI" -> 6
      [] c = "NOISE" -> 99
      [] OTHER -> 99

\* the score forced on the NOISE category (-50.0)
NoiseScore == -5000

(***************************************************************************)
(* Vectors.  A vector is a sequence of integers.                           *)
(***************************************************************************)
Unit(d, k) == [i \in 1..d |-> IF i = k THEN 1 ELSE 0]

\* vectors the remote tier may produce
RemoteVecs == {Unit(DimRemote, 1), Unit(DimRemote, 2)}
\* vectors the local tier may produce
LocalVecs == {Unit(DimLocal, 1), Unit(DimLocal, 2)}

RECURSIVE DotFrom(_, _, _)
DotFrom(a, b, i) ==
    IF i > Len(a) THEN 0 ELSE a[i] * b[i] + DotFrom(a, b, i + 1)

\* np.dot on two 1-d arrays of equal length
Dot(a, b) == DotFrom(a, b, 1)

RECURSIVE IsqrtFrom(_, _)
IsqrtFrom(n, r) == IF (r + 1) * (r + 1) > n THEN r ELSE IsqrtFrom(n, r + 1)

\* the integer square root
Isqrt(n) == IsqrtFrom(n, 0)

\* a vector of the remote tier lying in the plane of its first two axes
Vec(x, y) == [i \in 1..DimRemote |-> IF i = 1 THEN x ELSE IF i = 2 THEN y ELSE 0]

\* vectors for the categorisation routines taken alone: two opposite unit
\* vectors, the zero vector, and two vectors at an angle (norm 5 each)
ProbeVecs == {Vec(1, 0), Vec(-1, 0), Vec(0, 0), Vec(3, 4), Vec(4, 3)}

\* the norms of the vectors of the model, computed once
NormTable == [v \in RemoteVecs \cup LocalVecs \cup ProbeVecs |-> Isqrt(Dot(v, v))]

\* np.linalg.norm (exact on the vectors of the model, whose norms are integers)
Norm(a) == NormTable[a]

\* np.dot raises ValueError when the shapes differ
CosineRaises(vec1, vec2) == Len(vec1) # Len(vec2)

\* _cosine_similarity: the similarity as a fraction <<num, den>>, den > 0
cosine_similarity(vec1, vec2) ==
    LET dot_product == Dot(vec1, vec2)
        norm1 == Norm(vec1)
        norm2 == Norm(vec2)
    IN  IF norm1 = 0 \/ norm2 = 0 THEN <<0, 1>>
        ELSE <<dot_product, norm1 * norm2>>

\* a > b on fractions with positive denominators
FracGt(a, b) == a[1] * b[2] > b[1] * a[2]

(***************************************************************************)
(* RegexClassifier and the two categorisation routines of AIEngine.        *)
(* A text is the sequence of its match counts, one per REGEX_FALLBACK      *)
(* category in declaration order.                                          *)
(***************************************************************************)
NoMatch == [i \in 1..NCat |-> 0]
OneMatch(c) == [i \in 1..NCat |-> IF RegexCats[i] = c THEN 1 ELSE 0]

\* the texts of the articles handed to the engine
EngineTexts == {NoMatch, OneMatch("NOISE"), OneMatch("WELFARE")}

\* max(scores, key=scores.get): the first key holding the largest count
RECURSIVE ArgMaxFrom(_, _, _)
ArgMaxFrom(text, i, best) ==
    IF i > Len(text) THEN best
    ELSE ArgMaxFrom(text, i + 1, IF text[i] > text[best] THEN i ELSE best)

\* classify without the cap of the confidence at 1.0
classify_uncapped(text) ==
    LET b == ArgMaxFrom(text, 2, 1)
        max_score == text[b]
    IN  IF max_score > 0
        THEN [category |-> RegexCats[b], confidence |-> <<max_score, 3>>]
        ELSE [category |-> "GENERAL", confidence |-> <<3, 10>>]

\* RegexClassifier.classify: category and confidence (a fraction)
classify(text) ==
    LET b == ArgMaxFrom(text, 2, 1)
        max_score == text[b]
    IN  IF max_score > 0
        THEN [category |-> RegexCats[b],
              confidence |-> IF max_score >= 3 THEN <<1, 1>> ELSE <<max_score, 3>>]
        ELSE [category |-> "GENERAL", confidence |-> <<3, 10>>]

\* _categorize_by_regex without the branch that pins NOISE to -50
categorize_by_regex_unpinned(text) ==
    LET r == classify(text)
    IN  [category |-> r.category,
         score |-> 100 * (5 + Weight(r.category))
                   + RoundDiv(500 * r.confidence[1], r.confidence[2]),
         embedding |-> None]

\* AIEngine._categorize_by_regex
categorize_by_regex(text) ==
    LET r == classify(text)
        weight == Weight(r.category)
        score == IF r.category = "NOISE" THEN NoiseScore
                 ELSE 100 * (5 + weight)
                      + RoundDiv(500 * r.confidence[1], r.confidence[2])
    IN  [category |-> r.category, score |-> score, embedding |-> None]

\* the loop of _categorize_by_embedding over the anchor catalog, from entry i
RECURSIVE BestFrom(_, _, _, _, _)
BestFrom(anchors, embedding, i, best_category, best_similarity) ==
    IF i > Len(anchors) THEN [category |-> best_category, similarity |-> best_similarity]
    ELSE LET similarity == cosine_similarity(embedding, anchors[i])
         IN  IF FracGt(similarity, best_similarity)
             THEN BestFrom(anchors, embedding, i + 1, AnchorCats[i], similarity)
             ELSE BestFrom(anchors, embedding, i + 1, best_category, best_similarity)

\* _categorize_by_embedding raises when np.dot meets an anchor of another shape
EmbeddingRaises(anchors, embedding) ==
    \E i \in 1..Len(anchors) : CosineRaises(embedding, anchors[i])

\* _categorize_by_embedding without the branch that pins NOISE to -50
categorize_by_embedding_unpinned(anchors, embedding) ==
    LET b == BestFrom(anchors, embedding, 1, "GENERAL", <<-1, 1>>)
    IN  [category |-> b.category,
         score |-> RoundDiv(1000 * b.similarity[1], b.similarity[2])
                   + 100 * Weight(b.category),
         embedding |-> Some(embedding)]

\* AIEngine._categorize_by_embedding (when it does not raise)
categorize_by_embedding(anchors, embedding) ==
    LET b == BestFrom(anchors, embedding, 1, "GENERAL", <<-1, 1>>)
        weight == Weight(b.category)
        score == IF b.category = "NOISE" THEN NoiseScore
                 ELSE RoundDiv(1000 * b.similarity[1], b.similarity[2]) + 100 * weight
    IN  [category |-> b.category, score |-> score, embedding |-> Some(embedding)]

(***************************************************************************)
(* AIEngine.                                                               *)
(***************************************************************************)
\* the lists of k vectors of V in which at most one vector differs from the rest
Lists(V, k) ==
    IF k = 0 THEN {<<>>}
    ELSE {[i \in 1..k |-> IF i = j THEN b ELSE a] : a \in V, b \in V, j \in 1..k}

\* the numbers of vectors a provider's answer for n texts may carry: none, one
\* fewer than the texts sent, as many, one more
ResponseLens(n) == {0, n - 1, n, n + 1} \cap (0..(n + 1))

\* what CloudflareEmbedding.generate_embeddings can return for n texts: None,
\* or a list that the responses made as long as they liked
RemoteOutcomes(n) ==
    {None} \cup {Some(l) : l \in UNION {Lists(RemoteVecs, k) : k \in ResponseLens(n)}}

\* what LocalEmbedding.generate_embeddings can return for n texts: None, or
\* the n rows of model.encode
LocalOutcomes(n) == {None} \cup {Some(l) : l \in Lists(LocalVecs, n)}

\* Python truth value of an Optional[list]
Truthy(o) == ~IsNone(o) /\ Len(Val(o)) > 0

\* one call of a tier's generate_embeddings: the tier, and whether it gave
\* vectors (a list that is not empty)
Called(provider, outcome) == [provider |-> provider, yielded |-> Truthy(outcome)]

\* dict(zip(categories, embeddings))
ZipAnchors(embeddings) == SubSeq(embeddings, 1, Min(NCat, Len(embeddings)))

\* _initialize_anchors, given what the two tiers return
InitializeAnchors ==
    /\ engine_pc = "new"
    /\ engine_pc' = "ready"
    /\ engine_articles' = <<>>
    /\ processed' = <<>>
    /\ \E cf \in RemoteOutcomes(NCat) :
        IF Truthy(cf)
        THEN /\ anchor_embeddings' = ZipAnchors(Val(cf))
             /\ anchor_method' = "cloudflare"
             /\ calls' = <<Called("cloudflare", cf)>>
        ELSE \E loc \in LocalOutcomes(NCat) :
             /\ calls' = <<Called("cloudflare", cf), Called("local", loc)>>
             /\ IF Truthy(loc)
                THEN /\ anchor_embeddings' = ZipAnchors(Val(loc))
                     /\ anchor_method' = "local"
                ELSE /\ anchor_embeddings' = None
                     /\ anchor_method' = "regex"
    /\ UNCHANGED <<cfVars, dbVars, race, run, local_embedding>>

\* the per-article branch of process_articles (i is 1-based)
UsesEmbedding(embeddings, i) == Truthy(embeddings) /\ i <= Len(Val(embeddings))

\* the article fields written without the embedding
Annotate_without_embedding(text, r, method) ==
    [text |-> text, category |-> r.category, score |-> r.score,
     embedding |-> None, classification_method |-> method]

\* process_articles: the fields added to an article
Annotate(text, r, method) ==
    [text |-> text, category |-> r.category, score |-> r.score,
     embedding |-> r.embedding, classification_method |-> method]

ProcessOne(anchors, embeddings, texts, i) ==
    IF UsesEmbedding(embeddings, i)
    THEN Annotate(texts[i], categorize_by_embedding(anchors, Val(embeddings)[i]),
                  "embedding")
    ELSE Annotate(texts[i], categorize_by_regex(texts[i]), "regex")

\* the loop of process_articles raises when one embedded article raises
ProcessRaises(anchors, embeddings, texts) ==
    \E i \in 1..Len(texts) :
        UsesEmbedding(embeddings, i) /\ EmbeddingRaises(anchors, Val(embeddings)[i])

Batches == UNION {Lists(EngineTexts, n) : n \in 0..MaxBatch}

\* the guard of the embedding attempt without the test of the anchor catalog
AttemptsEmbedding_unguarded == TRUE

\* the guard of the embedding attempt in process_articles
AttemptsEmbedding ==
    anchor_embeddings # None /\ anchor_method \in {"cloudflare", "local"}

\* the classification loop running over zip(articles, embeddings): articles
\* beyond the vectors returned are left out
FinishProcess_zipped(texts, embeddings, called) ==
    /\ calls' = called
    /\ engine_articles' = texts
    /\ IF ProcessRaises(anchor_embeddings, embeddings, texts)
       THEN engine_pc' = "raised" /\ processed' = <<>>
       ELSE /\ engine_pc' = "returned"
            /\ processed' =
                [i \in 1..(IF Truthy(embeddings)
                           THEN Min(Len(texts), Len(Val(embeddings)))
                           ELSE Len(texts)) |->
                    ProcessOne(anchor_embeddings, embeddings, texts, i)]

\* process_articles from the provider results on: the loop and the return
FinishProcess(texts, embeddings, called) ==
    /\ calls' = called
    /\ engine_articles' = texts
    /\ IF ProcessRaises(anchor_embeddings, embeddings, texts)
       THEN engine_pc' = "raised" /\ processed' = <<>>
       ELSE /\ engine_pc' = "returned"
            /\ processed' = [i \in 1..Len(texts) |->
                                ProcessOne(anchor_embeddings, embeddings, texts, i)]

\* a process_articles that drops the catalog when both tiers fail for a batch
ProcessArticles_dropping ==
    /\ engine_pc = "ready"
    /\ \E texts \in Batches :
        IF texts = <<>> \/ ~AttemptsEmbedding
        THEN FinishProcess(texts, None, <<>>) /\ UNCHANGED <<anchor_embeddings, anchor_method>>
        ELSE \E cf \in RemoteOutcomes(Len(texts)) :
             IF ~IsNone(cf)
             THEN /\ FinishProcess(texts, cf, <<Called("cloudflare", cf)>>)
                  /\ UNCHANGED <<anchor_embeddings, anchor_method>>
             ELSE \E loc \in LocalOutcomes(Len(texts)) :
                  /\ FinishProcess(texts, loc,
                                   <<Called("cloudflare", cf), Called("local", loc)>>)
                  /\ IF IsNone(loc)
                     THEN anchor_embeddings' = None /\ anchor_method' = "regex"
                     ELSE UNCHANGED <<anchor_embeddings, anchor_method>>
    /\ UNCHANGED <<cfVars, dbVars, race, run, local_embedding>>

\* AIEngine.process_articles, given what the two tiers return
ProcessArticles ==
    /\ engine_pc = "ready"
    /\ \E texts \in Batches :
        IF texts = <<>> \/ ~AttemptsEmbedding
        THEN FinishProcess(texts, None, <<>>)
        ELSE \E cf \in RemoteOutcomes(Len(texts)) :
             IF ~IsNone(cf)
             THEN FinishProcess(texts, cf, <<Called("cloudflare", cf)>>)
             ELSE \E loc \in LocalOutcomes(Len(texts)) :
                  FinishProcess(texts, loc,
                                <<Called("cloudflare", cf), Called("local", loc)>>)
    /\ UNCHANGED <<anchor_embeddings, anchor_method>>
    /\ UNCHANGED <<cfVars, dbVars, race, run, local_embedding>>

\* the caller takes the result (or the exception) and the engine is called again
EngineReturn ==
    /\ engine_pc \in {"returned", "raised"}
    /\ engine_pc' = "ready"
    /\ engine_articles' = <<>>
    /\ processed' = <<>>
    /\ calls' = <<>>
    /\ UNCHANGED <<anchor_embeddings, anchor_method>>
    /\ UNCHANGED <<cfVars, dbVars, race, run, local_embedding>>

Init == EngineInit /\ CFIdle /\ DBIdle /\ RaceIdle /\ RunIdle /\ LocalIdle

Next == InitializeAnchors \/ ProcessArticles \/ EngineReturn

\* the engine: construction, then any sequence of process_articles calls
Spec == Init /\ [][Next]_vars

(***************************************************************************)
(* Properties of the engine (specification Spec).                          *)
(***************************************************************************)
ReturnedArticles == {processed[i] : i \in 1..Len(processed)}

\* C1: process_articles never raises, and every article it returns has a
\* category of the fixed set and a numeric score, whatever the two tiers
\* returned at startup and for the batch.
C1_NeverRaises ==
    /\ engine_pc # "raised"
    /\ \A a \in ReturnedArticles : a.category \in Categories /\ a.score \in Int

\* C3: all articles of one process_articles result carry the same
\* classification_method.
C3_OneMethodPerBatch ==
    engine_pc = "returned" =>
        \A a \in ReturnedArticles : \A b \in ReturnedArticles :
            a.classification_method = b.classification_method

\* C7: an article classified NOISE, by embedding or by pattern matching, has
\* score exactly -50.
C7_NoiseScore ==
    \A a \in ReturnedArticles : a.category = "NOISE" => a.score = NoiseScore

\* C7 witness: one result holds a NOISE article of the embedding path and a
\* NOISE article of the pattern-matching path.
C7_Witness ==
    /\ engine_pc = "returned"
    /\ \E a \in ReturnedArticles :
        a.category = "NOISE" /\ a.classification_method = "embedding"
    /\ \E a \in ReturnedArticles :
        a.category = "NOISE" /\ a.classification_method = "regex"

\* C8: once anchor initialization has failed on every tier (the catalog is
\* None), anchor_method is regex, and every process_articles call returns
\* without calling a provider, classifies every article by pattern matching,
\* and gives an article matching no pattern the category GENERAL.
C8_RegexOnlyMode ==
    (engine_pc # "new" /\ anchor_embeddings = None) =>
        /\ anchor_method = "regex"
        /\ engine_pc \in {"returned", "raised"} =>
            /\ engine_pc = "returned"
            /\ calls = <<>>
            /\ \A a \in ReturnedArticles :
                /\ a.classification_method = "regex"
                /\ a.text = NoMatch => a.category = "GENERAL"

\* C8 witness: in regex-only mode a batch holding an article without any
\* match has been classified.
C8_Witness ==
    /\ anchor_method = "regex"
    /\ engine_pc = "returned"
    /\ Len(processed) >= 2
    /\ \E a \in ReturnedArticles : a.text = NoMatch /\ a.category = "GENERAL"

\* C20: in every article returned by process_articles the embedding field
\* holds a vector if and only if classification_method is embedding, and is
\* None exactly when the article was classified by pattern matching.
C20_EmbeddingFieldIffEmbeddingPath ==
    \A a \in ReturnedArticles :
        /\ a.classification_method \in {"embedding", "regex"}
        /\ a.classification_method = "embedding" <=> ~IsNone(a.embedding)
        /\ a.classification_method = "regex" <=> IsNone(a.embedding)
        /\ ~IsNone(a.embedding) => Val(a.embedding) \in RemoteVecs \cup LocalVecs

\* C20 witness: one result holds an article classified by embedding, with
\* its vector, and an article classified by pattern matching, without one.
C20_Witness ==
    /\ engine_pc = "returned"
    /\ \E a \in ReturnedArticles :
        a.classification_method = "embedding" /\ ~IsNone(a.embedding)
    /\ \E a \in ReturnedArticles :
        a.classification_method = "regex" /\ IsNone(a.embedding)

\* C28: the list process_articles returns holds the articles it was given,
\* as many and in the same order, each with category, score, embedding and
\* classification_method; an empty input gives an empty list.
C28_SameArticlesAnnotated ==
    engine_pc = "returned" =>
        /\ Len(processed) = Len(engine_articles)
        /\ \A i \in 1..Len(processed) :
            /\ processed[i].text = engine_articles[i]
            /\ {"category", "score", "embedding", "classification_method"}
                    \subseteq DOMAIN processed[i]
            /\ processed[i].category \in Categories
            /\ processed[i].score \in Int

\* C28 witness: a batch of articles that are not all alike has been returned
\* after the remote tier gave fewer vectors than articles.
C28_Witness ==
    /\ engine_pc = "returned"
    /\ Len(engine_articles) = MaxBatch
    /\ \E i \in 1..MaxBatch : engine_articles[i] # engine_articles[1]
    /\ \E i \in 1..Len(processed) : processed[i].classification_method = "regex"
    /\ \E i \in 1..Len(processed) : processed[i].classification_method = "embedding"

\* C12: at anchor initialization and in process_articles the remote tier is
\* called first, the local tier is called if and only if the remote call gave
\* no vectors, and no tier is called after one that gave vectors.
C12_RemoteThenLocal ==
    /\ Len(calls) <= 2
    /\ calls # <<>> => calls[1].provider = "cloudflare"
    /\ Len(calls) = 2 => calls[2].provider = "local"
    /\ calls # <<>> => ((Len(calls) = 2) <=> ~calls[1].yielded)

(***************************************************************************)
(* CloudflareEmbedding: generate_embeddings and _make_request.  One step   *)
(* is one answer of the service to the request in flight.  A text is       *)
(* identified by its position in the call; the vector of text t is t, and  *)
(* a vector that belongs to no text sent is 0.                             *)
(***************************************************************************)
\* most texts handed to one generate_embeddings call
MaxTexts == 4
\* CLOUDFLARE_CONFIG["batch_size"] (50 in the code, scaled down)
batch_size == 2
\* CLOUDFLARE_CONFIG["max_retries"]
max_retries == 3
\* CLOUDFLARE_CONFIG["retry_delay"], in tenths of a second
retry_delay == 10
\* the pause between two chunks, time.sleep(0.1), in tenths of a second
chunk_pause == 1

RECURSIVE Pow2(_)
Pow2(k) == IF k = 0 THEN 1 ELSE 2 * Pow2(k - 1)

StrayVector == 0

\* texts[i:i + batch_size]
Chunk(texts, i) == SubSeq(texts, i + 1, Min(i + batch_size, Len(texts)))

\* (len(texts) + batch_size - 1) // batch_size
TotalBatches(texts) == (Len(texts) + batch_size - 1) \div batch_size

\* i // batch_size + 1
BatchNum(i) == i \div batch_size + 1

\* data["result"]["data"] of an answer carrying k vectors for the chunk
ResponseData(chunk, k) ==
    [j \in 1..k |-> IF j <= Len(chunk) THEN chunk[j] ELSE StrayVector]

\* the answers to one request for a chunk: status 200 with a body holding
\* result.data, status 200 with another body, 429, another status, a timeout,
\* another exception
Responses(chunk) ==
    {[kind |-> "ok", data |-> ResponseData(chunk, k)] : k \in ResponseLens(Len(chunk))}
    \cup {[kind |-> k, data |-> <<>>] :
            k \in {"malformed", "rate_limited", "error_status", "timeout", "exception"}}

Post(batch_num, attempt) == [op |-> "post", batch |-> batch_num, attempt |-> attempt]
Sleep(t) == [op |-> "sleep", time |-> t]
Response(kind, batch_num, attempt) ==
    [op |-> "response", kind |-> kind, batch |-> batch_num, attempt |-> attempt]

\* the log once the request in flight has been answered
Heard(kind) == Append(cf_log, Response(kind, BatchNum(cf_i), cf_attempt))

\* a failed chunk whose call still returns the vectors gathered so far
CFFail_keeps_vectors(kind) ==
    /\ cf_pc' = "done"
    /\ cf_result' = Some(all_embeddings)
    /\ cf_log' = Heard(kind)
    /\ UNCHANGED <<cf_i, cf_attempt, all_embeddings>>

\* _make_request returns None and generate_embeddings returns None
CFFail(kind) ==
    /\ cf_pc' = "done"
    /\ cf_result' = None
    /\ cf_log' = Heard(kind)
    /\ UNCHANGED <<cf_i, cf_attempt, all_embeddings>>

\* generate_embeddings is called with n texts and posts its first request
CFGenerate ==
    /\ cf_pc = "idle"
    /\ \E n \in 0..MaxTexts :
        /\ cf_texts' = [i \in 1..n |-> i]
        /\ cf_i' = 0
        /\ all_embeddings' = <<>>
        /\ cf_result' = None
        /\ IF ~is_configured \/ n = 0
           THEN cf_pc' = "done" /\ cf_attempt' = 0 /\ cf_log' = <<>>
           ELSE cf_pc' = "request" /\ cf_attempt' = 1 /\ cf_log' = <<Post(1, 1)>>
    /\ UNCHANGED <<is_configured, engineVars, dbVars, race, run, local_embedding>>

\* _make_request got a 200 answer with embeddings: the loop of
\* generate_embeddings extends the list and goes to the next chunk or returns
CFChunkDone(embeddings) ==
    LET batch_num == BatchNum(cf_i)
        extended == all_embeddings \o embeddings
    IN  /\ all_embeddings' = extended
        /\ IF batch_num < TotalBatches(cf_texts)
           THEN /\ cf_pc' = "request"
                /\ cf_i' = cf_i + batch_size
                /\ cf_attempt' = 1
                /\ cf_result' = None
                /\ cf_log' = Heard("ok") \o <<Sleep(chunk_pause), Post(batch_num + 1, 1)>>
           ELSE /\ cf_pc' = "done"
                /\ cf_result' = Some(extended)
                /\ cf_log' = Heard("ok")
                /\ UNCHANGED <<cf_i, cf_attempt>>

\* the retry branch taking one attempt more than max_retries
CFRateLimited_one_more(kind) ==
    IF cf_attempt <= max_retries
    THEN /\ cf_attempt' = cf_attempt + 1
         /\ cf_log' = Heard(kind) \o <<Sleep(retry_delay * Pow2(cf_attempt)),
                                       Post(BatchNum(cf_i), cf_attempt + 1)>>
         /\ UNCHANGED <<cf_pc, cf_i, all_embeddings, cf_result>>
    ELSE CFFail(kind)

\* _make_request on an answer it retries
CFRateLimited(kind) ==
    IF cf_attempt < max_retries
    THEN /\ cf_attempt' = cf_attempt + 1
         /\ cf_log' = Heard(kind) \o <<Sleep(retry_delay * Pow2(cf_attempt)),
                                       Post(BatchNum(cf_i), cf_attempt + 1)>>
         /\ UNCHANGED <<cf_pc, cf_i, all_embeddings, cf_result>>
    ELSE CFFail(kind)

\* every answer but a good one is retried
Transient_every_failure(kind) == kind # "ok"

\* a timeout is retried like a rate limit
Transient_with_timeout(kind) == kind \in {"rate_limited", "timeout"}

\* the answers _make_request retries: status 429
Transient(kind) == kind = "rate_limited"

\* the service answers the request in flight
CFResponse ==
    /\ cf_pc = "request"
    /\ \E resp \in Responses(Chunk(cf_texts, cf_i)) :
        CASE resp.kind = "ok" -> CFChunkDone(resp.data)
          [] Transient(resp.kind) -> CFRateLimited(resp.kind)
          [] OTHER -> CFFail(resp.kind)
    /\ UNCHANGED <<is_configured, cf_texts, engineVars, dbVars, race, run, local_embedding>>

\* the caller takes the value returned
CFReturn ==
    /\ cf_pc = "done"
    /\ cf_pc' = "idle"
    /\ cf_texts' = <<>>
    /\ cf_i' = 0
    /\ cf_attempt' = 0
    /\ all_embeddings' = <<>>
    /\ cf_result' = None
    /\ cf_log' = <<>>
    /\ UNCHANGED <<is_configured, engineVars, dbVars, race, run, local_embedding>>

InitCF ==
    /\ EngineInit /\ DBIdle /\ RaceIdle /\ RunIdle /\ LocalIdle
    /\ cf_pc = "idle"
    /\ is_configured \in BOOLEAN
    /\ cf_texts = <<>>
    /\ cf_i = 0
    /\ cf_attempt = 0
    /\ all_embeddings = <<>>
    /\ cf_result = None
    /\ cf_log = <<>>

NextCF == CFGenerate \/ CFResponse \/ CFReturn

\* the remote provider: any sequence of generate_embeddings calls
SpecCF == InitCF /\ [][NextCF]_vars

(***************************************************************************)
(* Properties of the remote provider (specification SpecCF).               *)
(***************************************************************************)
\* one vector per input text, in input order
FullResult(texts) == [i \in 1..Len(texts) |-> texts[i]]

\* C2: generate_embeddings returns None or exactly one vector per input
\* text, in input order.
C2_FullOrNone ==
    cf_pc = "done" => (IsNone(cf_result) \/ Val(cf_result) = FullResult(cf_texts))

LogIdx == 1..Len(cf_log)

\* the answers that are neither vectors nor a rate limit
HardFailures == {"malformed", "error_status", "timeout", "exception"}

IsAnswer(i, kinds) == cf_log[i].op = "response" /\ cf_log[i].kind \in kinds

\* entry i of the log is the answer on which _make_request gave up
GaveUp(i) ==
    \/ IsAnswer(i, HardFailures)
    \/ IsAnswer(i, {"rate_limited"}) /\ cf_log[i].attempt >= max_retries

\* entry i ends the log and the call has returned the failure signal
EndsInFailure(i) == i = Len(cf_log) /\ cf_pc = "done" /\ IsNone(cf_result)

PostsOf(b) == {i \in LogIdx : cf_log[i].op = "post" /\ cf_log[i].batch = b}

\* C13: once the request of one chunk has failed, generate_embeddings has
\* returned None (no vectors of earlier chunks) and no request of a later
\* chunk follows.
C13_ChunkFailureFailsAll ==
    \A i \in LogIdx :
        GaveUp(i) =>
            /\ cf_pc = "done" /\ IsNone(cf_result)
            /\ \A j \in LogIdx : j > i => cf_log[j].op # "post"

\* C13 witness: the first chunk gave vectors, a later chunk failed, and the
\* call has returned.
C13_Witness ==
    /\ cf_pc = "done"
    /\ all_embeddings # <<>>
    /\ cf_log # <<>> /\ GaveUp(Len(cf_log))
    /\ cf_log[Len(cf_log)].batch = 2

\* C14: no chunk is requested more than max_retries times; every retry comes
\* right after a 429 answer and a wait, the wait is positive and twice the
\* wait before the previous retry; the 429 answer to attempt max_retries
\* ends the call in failure.
C14_BoundedBackoff ==
    /\ \A b \in 1..TotalBatches(cf_texts) : Cardinality(PostsOf(b)) <= max_retries
    /\ \A i \in LogIdx :
        (cf_log[i].op = "post" /\ cf_log[i].attempt > 1) =>
            /\ i > 3
            /\ IsAnswer(i - 2, {"rate_limited"})
            /\ cf_log[i - 2].batch = cf_log[i].batch
            /\ cf_log[i - 1].op = "sleep" /\ cf_log[i - 1].time > 0
            /\ cf_log[i].attempt > 2 => cf_log[i - 1].time = 2 * cf_log[i - 4].time
    /\ \A i \in LogIdx :
        (IsAnswer(i, {"rate_limited"}) /\ cf_log[i].attempt = max_retries) =>
            EndsInFailure(i)

\* C14 witness: a chunk was requested max_retries times, every answer was
\* 429, and the call has returned None.
C14_Witness ==
    /\ cf_pc = "done" /\ IsNone(cf_result)
    /\ cf_log # <<>>
    /\ IsAnswer(Len(cf_log), {"rate_limited"})
    /\ Cardinality(PostsOf(cf_log[Len(cf_log)].batch)) = max_retries

\* C15: an answer that is an error status other than 429, a malformed 200
\* body, a timeout or another exception ends the call in failure at once:
\* no request and no wait follows it.
C15_HardFailureAtOnce ==
    \A i \in LogIdx : IsAnswer(i, HardFailures) => EndsInFailure(i)

\* C15 witness: the call made one request, the answer was a malformed body,
\* and the call has returned None.
C15_Witness ==
    /\ Len(cf_log) = 2
    /\ IsAnswer(2, {"malformed"})
    /\ EndsInFailure(2)

\* C16 as stated: a timeout is retried; the call does not fail on a timeout
\* before attempt max_retries.
C16_TimeoutRetried ==
    \A i \in LogIdx :
        (IsAnswer(i, {"timeout"}) /\ cf_log[i].attempt < max_retries) =>
            ~EndsInFailure(i)

\* C16 amended: a timeout is never retried, the call fails on it at once;
\* the only answer followed by a retry is 429.
C16_TimeoutNotRetried ==
    /\ \A i \in LogIdx : IsAnswer(i, {"timeout"}) => EndsInFailure(i)
    /\ \A i \in LogIdx :
        (cf_log[i].op = "post" /\ cf_log[i].attempt > 1) =>
            i > 2 /\ IsAnswer(i - 2, {"rate_limited"})

\* C16 witness: the first request of a chunk timed out and the call has
\* returned None without another request.
C16_Witness ==
    /\ cf_log # <<>>
    /\ IsAnswer(Len(cf_log), {"timeout"})
    /\ cf_log[Len(cf_log)].attempt = 1
    /\ EndsInFailure(Len(cf_log))

(***************************************************************************)
(* DatabaseManager.get_diverse_top_picks: the selection over the rows the  *)
(* pending query returned.  A candidate is [id, category, score].          *)
(***************************************************************************)
\* most rows in a candidate snapshot
MaxCand == 3
\* largest limit asked of a selection
MaxLimit == 4
\* SUPABASE_CONFIG["default_limit"], the cap of the pending query
default_limit == 40

Range(s) == {s[i] : i \in 1..Len(s)}

Remove(s, i) == SubSeq(s, 1, i - 1) \o SubSeq(s, i + 1, Len(s))

\* list.sort / sorted: the indices of keys in ascending key order, equal keys
\* keeping their order
RECURSIVE InsertIdx(_, _, _)
InsertIdx(sorted, keys, i) ==
    IF sorted = <<>> THEN <<i>>
    ELSE IF keys[Head(sorted)] <= keys[i]
         THEN <<Head(sorted)>> \o InsertIdx(Tail(sorted), keys, i)
         ELSE <<i>> \o sorted

RECURSIVE SortIdxFrom(_, _)
SortIdxFrom(keys, n) ==
    IF n = 0 THEN <<>> ELSE InsertIdx(SortIdxFrom(keys, n - 1), keys, n)

StableSort(keys) == SortIdxFrom(keys, Len(keys))

\* the priority order sorted the wrong way round
PriorityOrder_descending ==
    LET p == StableSort([i \in 1..NCat |-> -Priority(AnchorCats[i])])
        by_priority == [i \in 1..NCat |-> AnchorCats[p[i]]]
    IN  SelectSeq(by_priority, LAMBDA c : c # "NOISE")

\* sorted(CATEGORY_ANCHORS.keys(), key=priority) without NOISE
PriorityOrder ==
    LET p == StableSort([i \in 1..NCat |-> Priority(AnchorCats[i])])
        by_priority == [i \in 1..NCat |-> AnchorCats[p[i]]]
    IN  SelectSeq(by_priority, LAMBDA c : c # "NOISE")

\* position of the back of the bucket of category cat, 0 when it is empty
BucketFront_back(rest, cat) ==
    IF \E i \in 1..Len(rest) : rest[i].category = cat
    THEN CHOOSE i \in 1..Len(rest) :
            /\ rest[i].category = cat
            /\ \A j \in (i + 1)..Len(rest) : rest[j].category # cat
    ELSE 0

\* position of the front of the bucket of category cat among the rows not yet
\* taken, 0 when the bucket is empty
BucketFront(rest, cat) ==
    IF \E i \in 1..Len(rest) : rest[i].category = cat
    THEN CHOOSE i \in 1..Len(rest) :
            /\ rest[i].category = cat
            /\ \A j \in 1..(i - 1) : rest[j].category # cat
    ELSE 0

\* one run of the for loop over priority_order, from its k-th category
RECURSIVE Pass(_, _, _, _)
Pass(sel, rest, k, limit) ==
    IF k > Len(PriorityOrder) \/ Len(sel) >= limit
    THEN [selected |-> sel, rest |-> rest]
    ELSE LET i == BucketFront(rest, PriorityOrder[k])
         IN  IF i = 0 THEN Pass(sel, rest, k + 1, limit)
             ELSE Pass(Append(sel, rest[i]), Remove(rest, i), k + 1, limit)

\* any(buckets[cat] for cat in priority_order)
PriorityLeft(rest) == \E i \in 1..Len(rest) : rest[i].category \in Range(PriorityOrder)

\* the while loop of the first pass
RECURSIVE RoundRobin(_, _, _)
RoundRobin(sel, rest, limit) ==
    IF Len(sel) < limit /\ rest # <<>>
    THEN LET r == Pass(sel, rest, 1, limit)
         IN  IF ~PriorityLeft(r.rest) THEN r
             ELSE RoundRobin(r.selected, r.rest, limit)
    ELSE [selected |-> sel, rest |-> rest]

\* the keys of buckets in insertion order: categories as first met
RECURSIVE FirstSeen(_, _)
FirstSeen(cands, seen) ==
    IF cands = <<>> THEN seen
    ELSE FirstSeen(Tail(cands),
                   IF Head(cands).category \in Range(seen) THEN seen
                   ELSE Append(seen, Head(cands).category))

\* remaining: the buckets' leftovers, bucket after bucket
RECURSIVE Leftovers(_, _)
Leftovers(cats, rest) ==
    IF cats = <<>> THEN <<>>
    ELSE SelectSeq(rest, LAMBDA a : a.category = Head(cats))
         \o Leftovers(Tail(cats), rest)

\* remaining.sort(key=score, reverse=True)
SortByScoreDesc(items) ==
    LET p == StableSort([i \in 1..Len(items) |-> -(items[i].score)])
    IN  [i \in 1..Len(items) |-> items[p[i]]]

\* the selection without its second pass
Backfill_skipped(sel, rest, cands, limit) == sel

\* the second pass: fill the remainder with the highest scores
Backfill(sel, rest, cands, limit) ==
    IF Len(sel) < limit
    THEN LET remaining == SortByScoreDesc(Leftovers(FirstSeen(cands, <<>>), rest))
         IN  sel \o SubSeq(remaining, 1, Min(limit - Len(sel), Len(remaining)))
    ELSE sel

\* a selection sorted by score before it is returned
SelectDiverse_sorted(cands, limit) ==
    IF cands = <<>> THEN <<>>
    ELSE LET r == RoundRobin(<<>>, cands, limit)
         IN  SortByScoreDesc(Backfill(r.selected, r.rest, cands, limit))

\* get_diverse_top_picks from the rows fetched to the list returned
SelectDiverse(cands, limit) ==
    IF cands = <<>> THEN <<>>
    ELSE LET r == RoundRobin(<<>>, cands, limit)
         IN  Backfill(r.selected, r.rest, cands, limit)

\* scores of the candidates of a snapshot that are not NOISE
CandScores == {700, 600}

\* category and score of one candidate: NOISE rows carry the NOISE score
CandKinds ==
    {[category |-> c, score |-> sc] : c \in Categories \ {"NOISE"}, sc \in CandScores}
    \cup {[category |-> "NOISE", score |-> NoiseScore]}

\* the snapshots the pending query can return: at most default_limit rows,
\* ordered by score descending, ids distinct
Snapshots ==
    UNION {{[i \in 1..n |-> [id |-> i, category |-> k[i].category, score |-> k[i].score]] :
                k \in {f \in [1..n -> CandKinds] :
                          \A i \in 1..(n - 1) : f[i].score >= f[i + 1].score}} :
           n \in 0..Min(MaxCand, default_limit)}

\* get_diverse_top_picks, given the rows the pending query returned
SelectFromSnapshot ==
    /\ db_pc = "fetched"
    /\ db_pc' = "selected"
    /\ selected' = SelectDiverse(candidates, sel_limit)
    /\ UNCHANGED <<store, is_connected, db_ret, candidates, sel_limit>>
    /\ UNCHANGED <<engineVars, cfVars, race, run, local_embedding>>

InitSelect ==
    /\ EngineInit /\ CFIdle /\ RaceIdle /\ RunIdle /\ LocalIdle
    /\ store = <<>>
    /\ is_connected = TRUE
    /\ db_pc = "fetched"
    /\ db_ret = 0
    /\ candidates \in Snapshots
    /\ sel_limit \in 0..MaxLimit
    /\ selected = <<>>

NextSelect == SelectFromSnapshot

\* the selector applied to every snapshot and limit
SpecSelect == InitSelect /\ [][NextSelect]_vars

(***************************************************************************)
(* Properties of the selection (specification SpecSelect).                 *)
(***************************************************************************)
Ids(items) == {items[i].id : i \in 1..Len(items)}

\* the priority categories holding at least one candidate
PriorityPresent ==
    {c \in Range(PriorityOrder) : \E i \in 1..Len(candidates) : candidates[i].category = c}

\* C5: the selection returns exactly min(limit, n) of the n candidates, all
\* distinct and all of the snapshot; with limit >= n it returns every
\* candidate, those of categories outside the priority order included.
C5_MinLimitN ==
    db_pc = "selected" =>
        /\ Len(selected) = Min(sel_limit, Len(candidates))
        /\ Cardinality(Ids(selected)) = Len(selected)
        /\ Range(selected) \subseteq Range(candidates)
        /\ sel_limit >= Len(candidates) => Range(selected) = Range(candidates)

\* C5 witness: a limit above the number of candidates, and a GENERAL
\* candidate among several returned.
C5_Witness ==
    /\ db_pc = "selected"
    /\ sel_limit > Len(candidates)
    /\ Len(candidates) >= 2
    /\ \E i \in 1..Len(selected) : selected[i].category = "GENERAL"
    /\ \E i \in 1..Len(selected) : selected[i].category \in Range(PriorityOrder)

\* C6: when the candidates cover k categories of the priority order and
\* limit = k, the selection is exactly one item of each of those k
\* categories, in ascending priority rank.
C6_OnePerCategory ==
    (db_pc = "selected" /\ sel_limit = Cardinality(PriorityPresent) /\ sel_limit >= 1) =>
        /\ Len(selected) = sel_limit
        /\ {selected[i].category : i \in 1..Len(selected)} = PriorityPresent
        /\ \A i \in 1..(Len(selected) - 1) :
            Priority(selected[i].category) < Priority(selected[i + 1].category)

\* C6 witness: two or more priority categories are covered, limit is their
\* number, and the snapshot holds more candidates than that.
C6_Witness ==
    /\ db_pc = "selected"
    /\ sel_limit = Cardinality(PriorityPresent)
    /\ sel_limit >= 2
    /\ Len(candidates) > sel_limit

(***************************************************************************)
(* DatabaseManager over the news_articles table.  A row is                 *)
(* [id, content_hash, category, score, status]; the other columns (title,  *)
(* link, summary, embedding, created_at) are carried along unread.         *)
(***************************************************************************)
\* most articles handed to one save_articles_batch call
MaxSave == 2
\* most rows the table grows to
MaxStore == 3
\* SUPABASE_CONFIG["max_insert_batch"] (100 in the code, scaled down)
max_insert_batch == 1

NoHash == ""

\* an article after process_articles, with the fingerprint the parser gave it
Classified(h, text) ==
    LET r == categorize_by_regex(text)
    IN  [content_hash |-> h, category |-> r.category, score |-> r.score]

\* the classified articles a pipeline run can hand to the store
ArticlePool ==
    {Classified("h1", OneMatch("WELFARE")),
     Classified("h2", OneMatch("ALERTS")),
     Classified("h3", OneMatch("NOISE"))}

SaveBatches == UNION {[1..n -> ArticlePool] : n \in 0..MaxSave}

\* the filter that lets NOISE through
FilterNoise_off(articles, skip_noise) == articles

\* [a for a in articles if a.get("category") != "NOISE"] when skip_noise
FilterNoise(articles, skip_noise) ==
    IF skip_noise THEN SelectSeq(articles, LAMBDA a : a.category # "NOISE")
    ELSE articles

\* [a.get("content_hash") for a in articles if a.get("content_hash")]
HashesOf(articles) ==
    LET with_hash == SelectSeq(articles, LAMBDA a : a.content_hash # NoHash)
    IN  [i \in 1..Len(with_hash) |-> with_hash[i].content_hash]

StoredHashes(table) == {table[i].content_hash : i \in 1..Len(table)}

\* a check that reports every hash as stored when its query raises
check_existing_hashes_all_known(table, connected, content_hashes, fails) ==
    IF ~connected \/ content_hashes = <<>> THEN {}
    ELSE IF fails THEN Range(content_hashes)
    ELSE Range(content_hashes) \cap StoredHashes(table)

\* check_existing_hashes; fails: the query raises
check_existing_hashes(table, connected, content_hashes, fails) ==
    IF ~connected \/ content_hashes = <<>> THEN {}
    ELSE IF fails THEN {}
    ELSE Range(content_hashes) \cap StoredHashes(table)

\* new_articles of save_articles_batch
NewArticles(articles, existing_hashes) ==
    SelectSeq(articles,
              LAMBDA a : a.content_hash # NoHash /\ a.content_hash \notin existing_hashes)

\* db_records of save_articles_batch
DbRecords(new_articles) ==
    [i \in 1..Len(new_articles) |->
        [content_hash |-> new_articles[i].content_hash,
         category |-> new_articles[i].category,
         score |-> new_articles[i].score,
         status |-> "pending"]]

\* an insert that leaves out the rows whose fingerprint the table already holds
InsertRows_if_absent(table, batch) ==
    LET fresh == SelectSeq(batch, LAMBDA r : r.content_hash \notin StoredHashes(table))
    IN  table \o [i \in 1..Len(fresh) |->
                    [id |-> Len(table) + i,
                     content_hash |-> fresh[i].content_hash,
                     category |-> fresh[i].category,
                     score |-> fresh[i].score,
                     status |-> fresh[i].status]]

\* table.insert(batch): the rows get the next ids
InsertRows(table, batch) ==
    table \o [i \in 1..Len(batch) |->
                [id |-> Len(table) + i,
                 content_hash |-> batch[i].content_hash,
                 category |-> batch[i].category,
                 score |-> batch[i].score,
                 status |-> batch[i].status]]

\* number of runs of the insert loop over n records
InsertBatches(n) == (n + max_insert_batch - 1) \div max_insert_batch

\* the records inserted when the first ok inserts succeed and the next raises
Inserted(db_records, ok) ==
    SubSeq(db_records, 1, Min(ok * max_insert_batch, Len(db_records)))

\* new_articles of a save_articles_batch call on the table
SaveNew(table, connected, articles, skip_noise, check_fails) ==
    LET kept == FilterNoise(articles, skip_noise)
        existing_hashes ==
            check_existing_hashes(table, connected, HashesOf(kept), check_fails)
    IN  IF ~connected \/ articles = <<>> THEN <<>>
        ELSE NewArticles(kept, existing_hashes)

\* DatabaseManager.save_articles_batch as one call
SaveArticlesBatch ==
    /\ db_pc = "idle"
    /\ \E articles \in SaveBatches, skip_noise \in BOOLEAN, check_fails \in BOOLEAN :
        LET new_articles == SaveNew(store, is_connected, articles, skip_noise, check_fails)
        IN  /\ Len(store) + Len(new_articles) <= MaxStore
            /\ \E ok \in 0..InsertBatches(Len(new_articles)) :
                LET rows == Inserted(DbRecords(new_articles), ok)
                IN  /\ store' = InsertRows(store, rows)
                    /\ db_ret' = Len(rows)
    /\ db_pc' = "saved"
    /\ UNCHANGED <<is_connected, candidates, sel_limit, selected>>
    /\ UNCHANGED <<engineVars, cfVars, race, run, local_embedding>>

\* the pending query without its status filter
Pending_any_status(table, min_score) ==
    {i \in 1..Len(table) : table[i].score > min_score}

\* the rows the pending query matches
Pending(table, min_score) ==
    {i \in 1..Len(table) : table[i].status = "pending" /\ table[i].score > min_score}

\* order("score", desc=True): every order of the rows by falling score
RECURSIVE Orders(_, _)
Orders(table, S) ==
    IF S = {} THEN {<<>>}
    ELSE LET top == {i \in S : \A j \in S : table[i].score >= table[j].score}
         IN  UNION {{<<i>> \o o : o \in Orders(table, S \ {i})} : i \in top}

\* select("id, title, category, score, summary, link")
Row(r) == [id |-> r.id, category |-> r.category, score |-> r.score]

\* the answers of the pending query: response.data
PendingQuery(table, min_score) ==
    {[k \in 1..Min(Len(o), default_limit) |-> Row(table[o[k]])] :
        o \in Orders(table, Pending(table, min_score))}

\* thresholds asked of the pending query: the default 0.0 and one below NOISE
MinScores == {0, NoiseScore - 100}

\* DatabaseManager.get_diverse_top_picks as one call; fails: the query raises
GetDiverseTopPicks ==
    /\ db_pc = "idle"
    /\ \E limit \in 0..MaxLimit, min_score \in MinScores, fails \in BOOLEAN :
        /\ sel_limit' = limit
        /\ IF ~is_connected \/ fails
           THEN candidates' = <<>> /\ selected' = <<>>
           ELSE \E cands \in PendingQuery(store, min_score) :
                /\ candidates' = cands
                /\ selected' = SelectDiverse(cands, limit)
    /\ db_pc' = "selected"
    /\ UNCHANGED <<store, is_connected, db_ret>>
    /\ UNCHANGED <<engineVars, cfVars, race, run, local_embedding>>

\* update({"status": "published"}).in_("id", article_ids)
Publish(table, article_ids) ==
    [i \in 1..Len(table) |->
        IF table[i].id \in article_ids
        THEN [table[i] EXCEPT !.status = "published"]
        ELSE table[i]]

\* DatabaseManager.mark_as_published as one call; fails: the update raises
MarkAsPublished ==
    /\ db_pc = "idle"
    /\ \E article_ids \in SUBSET (1..MaxStore), fails \in BOOLEAN :
        IF ~is_connected \/ article_ids = {} \/ fails
        THEN store' = store /\ db_ret' = 0
        ELSE /\ store' = Publish(store, article_ids)
             /\ db_ret' = Cardinality({i \in 1..Len(store) : store[i].id \in article_ids})
    /\ db_pc' = "marked"
    /\ UNCHANGED <<is_connected, candidates, sel_limit, selected>>
    /\ UNCHANGED <<engineVars, cfVars, race, run, local_embedding>>

\* the caller takes the value returned
DbReturn ==
    /\ db_pc \in {"saved", "selected", "marked"}
    /\ db_pc' = "idle"
    /\ db_ret' = 0
    /\ candidates' = <<>>
    /\ sel_limit' = 0
    /\ selected' = <<>>
    /\ UNCHANGED <<store, is_connected>>
    /\ UNCHANGED <<engineVars, cfVars, race, run, local_embedding>>

InitStore ==
    /\ EngineInit /\ CFIdle /\ RaceIdle /\ RunIdle /\ LocalIdle
    /\ store = <<>>
    /\ is_connected \in BOOLEAN
    /\ db_pc = "idle"
    /\ db_ret = 0
    /\ candidates = <<>>
    /\ sel_limit = 0
    /\ selected = <<>>

NextStore == SaveArticlesBatch \/ GetDiverseTopPicks \/ MarkAsPublished \/ DbReturn

\* the store: any sequence of calls, one after the other
SpecStore == InitStore /\ [][NextStore]_vars

(***************************************************************************)
(* Properties of the store (specification SpecStore).                      *)
(***************************************************************************)
\* C4: after any sequence of save_articles_batch calls made one after the
\* other, no two rows of the table share a content fingerprint.
C4_UniqueFingerprint ==
    \A i \in 1..Len(store) : \A j \in 1..Len(store) :
        store[i].content_hash = store[j].content_hash => i = j

\* C9: rows are inserted as pending; a row's status changes only in
\* mark_as_published and only from pending to published; the candidates of
\* the pending query are rows that are pending.
C9_OneWayLifecycle ==
    [][/\ Len(store') >= Len(store)
       /\ \A i \in 1..Len(store) :
            /\ store'[i].id = store[i].id
            /\ store'[i].status # store[i].status =>
                /\ db_pc' = "marked"
                /\ store[i].status = "pending"
                /\ store'[i].status = "published"
       /\ \A i \in (Len(store) + 1)..Len(store') : store'[i].status = "pending"
       /\ db_pc' = "selected" =>
            \A k \in 1..Len(candidates') :
                \E i \in 1..Len(store') :
                    /\ store'[i].id = candidates'[k].id
                    /\ store'[i].status = "pending"
      ]_vars

\* C21: no article of category NOISE is in the list a selection returns,
\* whatever the rows, the limit and the min_score, after the round robin and
\* after the backfill.
C21_NoNoiseSelected ==
    \A k \in 1..Len(selected) : selected[k].category # "NOISE"

\* C9 witness: the table holds a published row and a pending row, and the
\* pending query has returned candidates.
C9_Witness ==
    /\ db_pc = "selected"
    /\ candidates # <<>>
    /\ \E i \in 1..Len(store) : store[i].status = "published"

(***************************************************************************)
(* Two pipeline instances writing to the one table at the same time.  Each *)
(* runs save_articles_batch (db.py) or filter_and_save_new (manager.py);   *)
(* every round trip to the table is one step, so the steps of the two      *)
(* instances interleave.                                                   *)
(***************************************************************************)
Procs == {1, 2}

SaverKinds == {"save_articles_batch", "filter_and_save_new"}

\* an instance about to save its articles
Saver(kind, articles) ==
    [pc |-> "start", kind |-> kind, articles |-> articles,
     new |-> <<>>, check_ok |-> TRUE, pos |-> 0, failed |-> FALSE]

\* ContentManager.filter_and_save_new up to its insert: valid_items
ValidItems(table, articles) ==
    LET hashes == [i \in 1..Len(articles) |-> articles[i].content_hash]
        existing == Range(hashes) \cap StoredHashes(table)
        new_items == SelectSeq(articles, LAMBDA a : a.content_hash \notin existing)
    IN  SelectSeq(new_items, LAMBDA a : a.category # "NOISE")

\* the existence check of instance p and the filtering that follows it
RaceCheck(p) ==
    /\ race[p].pc = "start"
    /\ \E skip_noise \in BOOLEAN, check_fails \in BOOLEAN :
        LET me == race[p]
            by_db == DbRecords(SaveNew(store, is_connected, me.articles,
                                       skip_noise, check_fails))
            by_manager == IF me.articles = <<>> \/ check_fails THEN <<>>
                          ELSE DbRecords(ValidItems(store, me.articles))
            found == IF me.kind = "save_articles_batch" THEN by_db ELSE by_manager
        IN  race' = [race EXCEPT ![p] =
                        [me EXCEPT !.new = found,
                                   !.check_ok = ~check_fails,
                                   !.pc = IF found = <<>> THEN "done" ELSE "insert"]]
    /\ UNCHANGED <<engineVars, cfVars, dbVars, run, local_embedding>>

\* one insert of instance p: a batch of max_insert_batch rows in
\* save_articles_batch, all of valid_items in filter_and_save_new
RaceInsert(p) ==
    /\ race[p].pc = "insert"
    /\ \E fails \in BOOLEAN :
        LET me == race[p]
            n == IF me.kind = "save_articles_batch" THEN max_insert_batch
                 ELSE Len(me.new)
            rows == SubSeq(me.new, me.pos + 1, Min(me.pos + n, Len(me.new)))
        IN  IF fails
            THEN /\ race' = [race EXCEPT ![p] =
                                [me EXCEPT !.failed = TRUE, !.pc = "done"]]
                 /\ store' = store
            ELSE /\ store' = InsertRows(store, rows)
                 /\ race' = [race EXCEPT ![p] =
                                [me EXCEPT !.pos = me.pos + Len(rows),
                                           !.pc = IF me.pos + Len(rows) = Len(me.new)
                                                  THEN "done" ELSE "insert"]]
    /\ UNCHANGED <<is_connected, db_pc, db_ret, candidates, sel_limit, selected>>
    /\ UNCHANGED <<engineVars, cfVars, run, local_embedding>>

InitRace ==
    /\ EngineInit /\ CFIdle /\ DBIdle /\ RunIdle /\ LocalIdle
    /\ race \in [Procs -> {Saver(k, a) : k \in SaverKinds, a \in SaveBatches}]

NextRace == \E p \in Procs : RaceCheck(p) \/ RaceInsert(p)

\* two concurrent pipeline instances saving into an empty table
SpecRace == InitRace /\ [][NextRace]_vars

(***************************************************************************)
(* Properties of concurrent saves (specification SpecRace).                *)
(***************************************************************************)
RowsWith(h) == {i \in 1..Len(store) : store[i].content_hash = h}

\* instance p passed its existence check with fingerprint h found absent,
\* and then completed every one of its inserts
InsertedAfterCheck(p, h) ==
    /\ race[p].pc = "done"
    /\ race[p].check_ok
    /\ ~race[p].failed
    /\ \E i \in 1..Len(race[p].new) : race[p].new[i].content_hash = h

\* C10: the insert does not look at the table again.  When both concurrent
\* instances have passed their existence check with the same fingerprint
\* found absent and both complete their inserts, the table holds two rows
\* of that fingerprint.
C10_CheckThenInsertNotAtomic ==
    \A h \in {a.content_hash : a \in ArticlePool} :
        (\A p \in Procs : InsertedAfterCheck(p, h)) => Cardinality(RowsWith(h)) >= 2

\* no fingerprint repeats within the articles of instance p
NoRepeat(p) ==
    \A i \in 1..Len(race[p].articles) : \A j \in 1..Len(race[p].articles) :
        race[p].articles[i].content_hash = race[p].articles[j].content_hash => i = j

\* C10 witness: both instances were handed articles without a repeated
\* fingerprint, both existence checks succeeded, both inserted, and the
\* table holds two rows of one fingerprint.
C10_Witness ==
    \E h \in {a.content_hash : a \in ArticlePool} :
        /\ \A p \in Procs : NoRepeat(p) /\ InsertedAfterCheck(p, h)
        /\ Cardinality(RowsWith(h)) = 2

(***************************************************************************)
(* The two categorisation routines taken alone: categorize_single on one   *)
(* article, over a wider range of anchor catalogs, article vectors and     *)
(* texts than the batches above.                                           *)
(***************************************************************************)
\* most patterns of one category that a text matches
MaxMatches == 4

\* anchor catalogs in which at most two anchors differ from the rest
Catalogs ==
    {[i \in 1..NCat |-> IF i = j THEN b ELSE IF i = k THEN c ELSE a] :
        a \in ProbeVecs, b \in ProbeVecs, c \in ProbeVecs, j \in 1..NCat, k \in 1..NCat}

\* texts matching patterns of at most two categories
ProbeTexts ==
    {[i \in 1..NCat |-> IF i = j THEN m ELSE IF i = k THEN n ELSE 0] :
        m \in 0..MaxMatches, n \in 0..MaxMatches, j \in 1..NCat, k \in 1..NCat}

\* AIEngine.categorize_single: process_articles on one article; with a
\* catalog the remote tier returns the article's vector, without one the
\* article goes to pattern matching
CategorizeSingle ==
    /\ engine_pc = "ready"
    /\ IF AttemptsEmbedding
       THEN \E v \in ProbeVecs :
            FinishProcess(<<NoMatch>>, Some(<<v>>),
                          <<Called("cloudflare", Some(<<v>>))>>)
       ELSE \E text \in ProbeTexts :
            FinishProcess(<<text>>, None, <<>>)
    /\ UNCHANGED <<anchor_embeddings, anchor_method>>
    /\ UNCHANGED <<cfVars, dbVars, race, run, local_embedding>>

\* an engine after _initialize_anchors: with a catalog from the remote tier,
\* or in regex-only mode
InitClassify ==
    /\ CFIdle /\ DBIdle /\ RaceIdle /\ RunIdle /\ LocalIdle
    /\ engine_pc = "ready"
    /\ calls = <<>>
    /\ engine_articles = <<>>
    /\ processed = <<>>
    /\ \/ anchor_embeddings \in Catalogs /\ anchor_method = "cloudflare"
       \/ anchor_embeddings = None /\ anchor_method = "regex"

NextClassify == CategorizeSingle \/ EngineReturn

\* the categorisation of single articles
SpecClassify == InitClassify /\ [][NextClassify]_vars

(***************************************************************************)
(* Properties of categorisation (specification SpecClassify).              *)
(***************************************************************************)
\* C11: on either path a score is at least -50, it is -50 exactly when the
\* category is NOISE, and so a non-NOISE article scores strictly above -50,
\* the score of every NOISE article.
C11_NoiseIsFloor ==
    \A a \in ReturnedArticles :
        /\ a.score >= NoiseScore
        /\ a.score = NoiseScore <=> a.category = "NOISE"
        /\ a.category # "NOISE" => a.score > NoiseScore

\* C11 witness: an article of the embedding path with the lowest score that
\* path can give (every similarity -1) has been returned and is not NOISE.
C11_Witness ==
    /\ engine_pc = "returned"
    /\ \E a \in ReturnedArticles :
        /\ a.classification_method = "embedding"
        /\ a.category # "NOISE"
        /\ a.score = -1000

\* the similarity of a returned article's vector to anchor i of the catalog
SimTo(a, i) == cosine_similarity(Val(a.embedding), anchor_embeddings[i])

\* C17: on the embedding path the category assigned is an anchor category of
\* maximal similarity to the article, and the first declared among those of
\* maximal similarity; also when every similarity is -1 and when the article
\* vector has zero norm.
C17_MaxSimilarityFirstDeclared ==
    \A a \in ReturnedArticles :
        a.classification_method = "embedding" =>
            \E i \in 1..Len(anchor_embeddings) :
                /\ a.category = AnchorCats[i]
                /\ \A j \in 1..Len(anchor_embeddings) : ~FracGt(SimTo(a, j), SimTo(a, i))
                /\ \A j \in 1..(i - 1) : FracGt(SimTo(a, i), SimTo(a, j))

\* the number of patterns of category c that the text matches
Count(text, c) == text[CHOOSE i \in 1..NCat : RegexCats[i] = c]

\* C18: on the pattern-matching path a text with a match gets a category of
\* the highest match count, and among the categories of the highest count
\* the first in the declaration order of CATEGORY_ANCHORS, the order that
\* breaks ties on the embedding path.
C18_HighestCountFirstDeclared ==
    \A a \in ReturnedArticles :
        (a.classification_method = "regex" /\ a.text # NoMatch) =>
            \E k \in 1..NCat :
                /\ a.category = AnchorCats[k]
                /\ \A j \in 1..NCat :
                    Count(a.text, AnchorCats[j]) <= Count(a.text, AnchorCats[k])
                /\ \A j \in 1..(k - 1) :
                    Count(a.text, AnchorCats[j]) < Count(a.text, AnchorCats[k])

\* C19: on the pattern-matching path a non-NOISE article whose category has
\* m >= 1 matching patterns scores 5 + weight + 5 * min(m/3, 1), to the
\* nearest hundredth; an article matching no pattern is GENERAL with the
\* score 6.5.
C19_RegexScore ==
    \A a \in ReturnedArticles :
        a.classification_method = "regex" =>
            IF a.text = NoMatch
            THEN a.category = "GENERAL" /\ a.score = 650
            ELSE a.category # "NOISE" =>
                 LET m == Count(a.text, a.category)
                     thrice == 300 * (5 + Weight(a.category)) + 500 * Min(m, 3)
                 IN  /\ m >= 1
                     /\ 3 * a.score - thrice \in -1..1

\* C19 witness: an article whose winning category matched more than three
\* patterns has been scored, and it is not NOISE.
C19_Witness ==
    /\ engine_pc = "returned"
    /\ \E a \in ReturnedArticles :
        /\ a.classification_method = "regex"
        /\ a.category \notin {"NOISE", "GENERAL"}
        /\ Count(a.text, a.category) > 3

(***************************************************************************)
(* RSSParser.parse_feeds: one worker task per feed, completing in any      *)
(* order.  A title or link is a sequence of characters.                    *)
(***************************************************************************)
Feeds == {"f1", "f2", "f3"}

\* hashlib.sha256(...).hexdigest(), taken as free of collisions
Sha256(content) == <<"sha256", content>>

\* _generate_content_hash: the hash of f"{title}{link}"
generate_content_hash(title, link) == Sha256(title \o link)

\* the entries a feed may carry: two with the same title and link and
\* different summaries, one whose title and link differ from theirs but
\* concatenate to the same string, one unrelated
Entries ==
    {[title |-> <<"a", "b">>, link |-> <<"c">>, summary |-> "s1"],
     [title |-> <<"a", "b">>, link |-> <<"c">>, summary |-> "s2"],
     [title |-> <<"a">>, link |-> <<"b", "c">>, summary |-> "s1"],
     [title |-> <<"d">>, link |-> <<"c">>, summary |-> "s1"]}

\* feed.entries: no entry, one entry, or two entries
FeedContents ==
    {<<>>} \cup {<<e>> : e \in Entries}
    \cup {<<e, f>> : e \in {[title |-> <<"a", "b">>, link |-> <<"c">>, summary |-> "s1"]},
                     f \in Entries}

\* the article whose fingerprint also covers the summary
ParseEntry_hash_with_summary(entry, feed_url) ==
    [title |-> entry.title, link |-> entry.link, summary |-> entry.summary,
     content_hash |-> Sha256(entry.title \o entry.link \o <<entry.summary>>),
     source_feed |-> feed_url]

\* _parse_single_feed: the article dict built from one entry
ParseEntry(entry, feed_url) ==
    [title |-> entry.title, link |-> entry.link, summary |-> entry.summary,
     content_hash |-> generate_content_hash(entry.title, entry.link),
     source_feed |-> feed_url]

\* _parse_single_feed when nothing raises
ParseSingleFeed(feed_url, entries) ==
    [i \in 1..Len(entries) |-> ParseEntry(entries[i], feed_url)]

\* the loop over all_articles with seen_hashes: the positions kept
RECURSIVE KeptFrom(_, _, _)
KeptFrom(all, i, seen_hashes) ==
    IF i > Len(all) THEN <<>>
    ELSE IF all[i].content_hash \in seen_hashes
         THEN KeptFrom(all, i + 1, seen_hashes)
         ELSE <<i>> \o KeptFrom(all, i + 1, seen_hashes \cup {all[i].content_hash})

\* parse_feeds keeping the last article of each fingerprint
RemoveDuplicates_last(all) ==
    LET last == SelectSeq([i \in 1..Len(all) |-> i],
                          LAMBDA i : \A j \in (i + 1)..Len(all) :
                                        all[j].content_hash # all[i].content_hash)
    IN  [k \in 1..Len(last) |-> all[last[k]]]

\* parse_feeds: unique_articles
RemoveDuplicates(all) ==
    LET kept == KeptFrom(all, 1, {})
    IN  [k \in 1..Len(kept) |-> all[kept[k]]]

\* parse_feeds, lines 107-113: no parser library means an empty result;
\* otherwise one task per feed is submitted
ParseFeeds ==
    /\ run # <<>> /\ run.pc = "parse_feeds"
    /\ run' = IF run.is_available
              THEN [run EXCEPT !.pc = "collecting"]
              ELSE [run EXCEPT !.pc = "returned", !.pending = {}]
    /\ UNCHANGED <<engineVars, cfVars, dbVars, race, local_embedding>>

\* a feed whose failure leaves parse_feeds with an exception
FeedCompletes_abort(feed_url, ok) ==
    /\ run # <<>> /\ run.pc = "collecting"
    /\ feed_url \in run.pending
    /\ run' = IF ok
              THEN [run EXCEPT !.pending = @ \ {feed_url},
                               !.all_articles = @ \o ParseSingleFeed(feed_url, run.feeds[feed_url])]
              ELSE [run EXCEPT !.pc = "raised", !.failed = @ \cup {feed_url}]
    /\ UNCHANGED <<engineVars, cfVars, dbVars, race, local_embedding>>

\* one pass of the as_completed loop: the task of feed_url has finished,
\* with its articles or, after an exception in _parse_single_feed, with []
\* and the pass that empties the loop goes on to the duplicate removal
FeedCompletes(feed_url, ok) ==
    /\ run # <<>> /\ run.pc = "collecting"
    /\ feed_url \in run.pending
    /\ LET articles == IF ok THEN ParseSingleFeed(feed_url, run.feeds[feed_url]) ELSE <<>>
           all      == run.all_articles \o articles
           left     == run.pending \ {feed_url}
       IN  run' = [run EXCEPT !.pending = left,
                              !.failed = IF ok THEN @ ELSE @ \cup {feed_url},
                              !.all_articles = all,
                              !.pc = IF left = {} THEN "returned" ELSE "collecting",
                              !.unique_articles = IF left = {} THEN RemoveDuplicates(all) ELSE @]
    /\ UNCHANGED <<engineVars, cfVars, dbVars, race, local_embedding>>

InitParse ==
    /\ EngineInit /\ CFIdle /\ DBIdle /\ RaceIdle /\ LocalIdle
    /\ run \in [pc : {"parse_feeds"}, is_available : BOOLEAN,
                feeds : [Feeds -> FeedContents], pending : {Feeds}, failed : {{}},
                all_articles : {<<>>}, unique_articles : {<<>>}]

NextParse ==
    \/ ParseFeeds
    \/ \E feed_url \in Feeds, ok \in BOOLEAN : FeedCompletes(feed_url, ok)

SpecParse == InitParse /\ [][NextParse]_vars

\* the fingerprints of a list of articles
Hashes(articles) == {articles[i].content_hash : i \in 1..Len(articles)}

\* C23: the fingerprint is a function of title and link only: collected
\* articles with the same title and link have the same fingerprint whatever
\* their summary or source feed, and parse_feeds returns at most one of them
C23_FingerprintOfTitleAndLink ==
    run.pc \in {"collecting", "returned"} =>
        /\ \A i, j \in 1..Len(run.all_articles) :
              (/\ run.all_articles[i].title = run.all_articles[j].title
               /\ run.all_articles[i].link = run.all_articles[j].link)
              => run.all_articles[i].content_hash = run.all_articles[j].content_hash
        /\ \A i, j \in 1..Len(run.unique_articles) :
              (/\ run.unique_articles[i].title = run.unique_articles[j].title
               /\ run.unique_articles[i].link = run.unique_articles[j].link)
              => i = j

C23_Witness ==
    /\ run.pc = "returned"
    /\ \E i, j \in 1..Len(run.all_articles) :
          /\ run.all_articles[i].title = run.all_articles[j].title
          /\ run.all_articles[i].link = run.all_articles[j].link
          /\ run.all_articles[i].summary # run.all_articles[j].summary
          /\ run.all_articles[i].source_feed # run.all_articles[j].source_feed
    /\ Len(run.unique_articles) = 1

\* the articles of all_articles that came from one feed, in order
FromFeed(all, feed_url) == SelectSeq(all, LAMBDA a : a.source_feed = feed_url)

\* C27: a feed that fails contributes nothing and stops nothing: the
\* collection holds exactly the articles of the feeds that have completed
\* without failing, in any completion order, parse_feeds goes on until every
\* task is done and then returns a list with every fingerprint of the feeds
\* that succeeded
C27_FailedFeedIsolated ==
    /\ run.pc \in {"parse_feeds", "collecting", "returned"}
    /\ \A f \in Feeds :
          FromFeed(run.all_articles, f) =
              IF f \in run.pending \cup run.failed \/ ~run.is_available THEN <<>>
              ELSE ParseSingleFeed(f, run.feeds[f])
    /\ run.pc = "collecting" => run.pending # {}
    /\ run.pc = "returned" =>
          /\ run.pending = {}
          /\ run.is_available =>
                \A f \in Feeds \ run.failed :
                    Hashes(ParseSingleFeed(f, run.feeds[f])) \subseteq Hashes(run.unique_articles)

C27_Witness ==
    /\ run.pc = "returned"
    /\ run.failed = {"f2"}
    /\ Len(run.all_articles) >= 2
    /\ run.all_articles[1].source_feed = "f3"
    /\ run.all_articles[Len(run.all_articles)].source_feed = "f1"
    /\ Len(run.unique_articles) >= 2

(***************************************************************************)
(* The while loops of the three round-robin routines, one pass of the      *)
(* for loop at a time.  run holds the routine, its snapshot, its buckets   *)
(* (rest: the candidates not yet taken) and its selection.                 *)
(***************************************************************************)
Routines == {"get_diverse_top_picks", "_simulate_selection", "select_diverse_batch"}

\* priority_order of ContentManager.select_diverse_batch
ManagerOrder ==
    <<"ALERTS", "WELFARE", "WAR_GEO", "TECH_SCI", "FINANCE", "POLITICS", "GENERAL">>

\* priority_order of a routine
OrderOf(routine) ==
    IF routine = "select_diverse_batch" THEN ManagerOrder ELSE PriorityOrder

\* .gt("score", 5.0) of select_diverse_batch
ManagerMinScore == 500

\* the candidates a routine buckets, from the rows or articles it is given
CandidatesOf(routine, items) ==
    IF routine = "_simulate_selection"
    THEN SortByScoreDesc(SelectSeq(items, LAMBDA a : a.category # "NOISE"))
    ELSE IF routine = "select_diverse_batch"
    THEN SelectSeq(items, LAMBDA a : a.score > ManagerMinScore)
    ELSE items

\* a for loop that empties a bucket before it moves to the next category
RECURSIVE PassOver_greedy(_, _, _, _, _)
PassOver_greedy(order, sel, rest, k, limit) ==
    IF k > Len(order) \/ Len(sel) >= limit
    THEN [selected |-> sel, rest |-> rest]
    ELSE LET i == BucketFront(rest, order[k])
         IN  IF i = 0 THEN PassOver_greedy(order, sel, rest, k + 1, limit)
             ELSE PassOver_greedy(order, Append(sel, rest[i]), Remove(rest, i), k, limit)

\* one run of the for loop over a priority order, from its k-th category
RECURSIVE PassOver(_, _, _, _, _)
PassOver(order, sel, rest, k, limit) ==
    IF k > Len(order) \/ Len(sel) >= limit
    THEN [selected |-> sel, rest |-> rest]
    ELSE LET i == BucketFront(rest, order[k])
         IN  IF i = 0 THEN PassOver(order, sel, rest, k + 1, limit)
             ELSE PassOver(order, Append(sel, rest[i]), Remove(rest, i), k + 1, limit)

\* while len(selected) < limit and any(buckets.values())
LoopCondition(r) == Len(r.selected) < r.limit /\ r.rest # <<>>

\* the break after a pass: only get_diverse_top_picks has one
BreaksAfter(routine, rest) ==
    /\ routine = "get_diverse_top_picks"
    /\ ~\E i \in 1..Len(rest) : rest[i].category \in Range(PriorityOrder)

\* the loop test and, when it holds, one pass of the for loop
LoopPass ==
    /\ run # <<>> /\ run.pc = "loop"
    /\ IF ~LoopCondition(run)
       THEN run' = [run EXCEPT !.pc = "after_loop"]
       ELSE LET r == PassOver(OrderOf(run.routine), run.selected, run.rest, 1, run.limit)
            IN  run' = [run EXCEPT !.selected = r.selected,
                                   !.rest = r.rest,
                                   !.pc = IF BreaksAfter(run.routine, r.rest)
                                          THEN "after_loop" ELSE "loop"]
    /\ UNCHANGED <<engineVars, cfVars, dbVars, race, local_embedding>>

\* after the loop: the second pass where the routine has one, and the return
LoopReturn ==
    /\ run # <<>> /\ run.pc = "after_loop"
    /\ run' = [run EXCEPT
                 !.pc = "returned",
                 !.selected =
                     IF run.routine = "select_diverse_batch" THEN @
                     ELSE Backfill(run.selected, run.rest, run.candidates, run.limit)]
    /\ UNCHANGED <<engineVars, cfVars, dbVars, race, local_embedding>>

\* a routine about to enter its while loop on a non-empty list of candidates
InitLoop ==
    /\ EngineInit /\ CFIdle /\ DBIdle /\ RaceIdle /\ LocalIdle
    /\ \E routine \in Routines, items \in Snapshots, limit \in 0..MaxLimit :
          LET cands == CandidatesOf(routine, items)
          IN  /\ routine # "_simulate_selection" => cands # <<>>
              /\ run = [pc |-> "loop", routine |-> routine, limit |-> limit,
                        candidates |-> cands, rest |-> cands, selected |-> <<>>]

NextLoop == LoopPass \/ LoopReturn

SpecLoop == InitLoop /\ [][NextLoop]_vars

\* C29: every round-robin routine terminates: its while loop never makes a
\* pass that takes no article and leaves the loop condition true, since the
\* next pass would start from the same buckets and selection
C29_LoopsTerminate ==
    (run.pc = "loop" /\ LoopCondition(run)) =>
        LET r == PassOver(OrderOf(run.routine), run.selected, run.rest, 1, run.limit)
        IN  \/ Len(r.selected) > Len(run.selected)
            \/ BreaksAfter(run.routine, r.rest)

(***************************************************************************)
(* NewsPipeline.run, step by step, one run after the other on the same     *)
(* store.  The engine is in regex-only mode (no provider gave anchor       *)
(* vectors), so that process_articles is the pattern classifier.  run      *)
(* holds the arguments and local values of the run in progress, what       *)
(* failed in it, rows_before: the rows stored when it began, and emitted:  *)
(* the ids returned by earlier live runs.                                  *)
(***************************************************************************)
\* the articles the feeds can carry: two with the same title and link whose
\* summaries classify differently, one ALERTS, one that matches no pattern
RawArticle(h, text) == [content_hash |-> h, text |-> text]

\* all_articles of parse_feeds: what the feeds of one run deliver: nothing,
\* one article, or two of which the second may repeat the first's fingerprint
Collected ==
    {<<>>,
     <<RawArticle("h1", OneMatch("WELFARE"))>>,
     <<RawArticle("h1", OneMatch("NOISE"))>>,
     <<RawArticle("h3", NoMatch), RawArticle("h1", OneMatch("NOISE"))>>,
     <<RawArticle("h1", OneMatch("WELFARE")), RawArticle("h1", OneMatch("NOISE"))>>,
     <<RawArticle("h1", OneMatch("NOISE")), RawArticle("h1", OneMatch("WELFARE"))>>,
     <<RawArticle("h2", OneMatch("ALERTS")), RawArticle("h1", OneMatch("WELFARE"))>>}

\* limit of a run
RunLimits == {1, 2}

\* process_articles in regex-only mode: every article, in order
ProcessByRegex(raw_articles) ==
    [i \in 1..Len(raw_articles) |->
        Classified(raw_articles[i].content_hash, raw_articles[i].text)]

\* the while loop of _simulate_selection; stalled: it never ends
RECURSIVE SimulateLoop(_, _, _)
SimulateLoop(sel, rest, limit) ==
    IF ~(Len(sel) < limit /\ rest # <<>>)
    THEN [selected |-> sel, rest |-> rest, stalled |-> FALSE]
    ELSE LET r == PassOver(PriorityOrder, sel, rest, 1, limit)
         IN  IF r.selected = sel
             THEN [selected |-> sel, rest |-> rest, stalled |-> TRUE]
             ELSE SimulateLoop(r.selected, r.rest, limit)

NoRun(emitted) ==
    [pc |-> "idle", limit |-> 0, live_mode |-> FALSE, skip_noise |-> FALSE,
     all_articles |-> <<>>, raw_articles |-> <<>>, processed_articles |-> <<>>,
     rows_before |-> 0, checked |-> <<>>, saved_count |-> 0,
     final_selection |-> <<>>, published_count |-> 0, failed |-> {},
     emitted |-> emitted]

\* run() is called; step 1: parse_feeds, and the early return on no article
RunFetch ==
    /\ run.pc = "idle"
    /\ \E limit \in RunLimits, live_mode \in BOOLEAN, skip_noise \in BOOLEAN,
          all \in Collected :
          LET raw_articles == RemoveDuplicates(all)
          IN  /\ live_mode => Len(store) + Len(raw_articles) <= MaxStore
              /\ run' = [run EXCEPT !.limit = limit, !.live_mode = live_mode,
                                    !.skip_noise = skip_noise,
                                    !.all_articles = all,
                                    !.raw_articles = raw_articles,
                                    !.rows_before = Len(store),
                                    !.pc = IF raw_articles = <<>> THEN "done" ELSE "fetched"]
    /\ UNCHANGED <<engineVars, cfVars, dbVars, race, local_embedding>>

\* a classification step that leaves out the articles the store knows
RunClassify_unknown_only ==
    /\ run.pc = "fetched"
    /\ run' = [run EXCEPT
                 !.processed_articles =
                     ProcessByRegex(SelectSeq(run.raw_articles,
                         LAMBDA a : a.content_hash \notin StoredHashes(store))),
                 !.pc = "classified"]
    /\ UNCHANGED <<engineVars, cfVars, dbVars, race, local_embedding>>

\* step 2: process_articles(raw_articles)
RunClassify ==
    /\ run.pc = "fetched"
    /\ run' = [run EXCEPT !.processed_articles = ProcessByRegex(run.raw_articles),
                          !.pc = "classified"]
    /\ UNCHANGED <<engineVars, cfVars, dbVars, race, local_embedding>>

\* a step 3 that saves in a dry run as well
RunSave_dry_too ==
    /\ run.pc = "classified"
    /\ IF TRUE
       THEN \E check_fails \in BOOLEAN :
            LET kept   == FilterNoise(run.processed_articles, run.skip_noise)
                hashes == IF is_connected THEN HashesOf(kept) ELSE <<>>
                new_articles == SaveNew(store, is_connected, run.processed_articles,
                                        run.skip_noise, check_fails)
            IN  /\ check_fails => hashes # <<>>
                /\ \E ok \in 0..InsertBatches(Len(new_articles)) :
                    LET rows == Inserted(DbRecords(new_articles), ok)
                    IN  /\ store' = InsertRows(store, rows)
                        /\ run' = [run EXCEPT
                                     !.checked = hashes,
                                     !.saved_count = Len(rows),
                                     !.failed = @ \cup (IF check_fails THEN {"check"} ELSE {})
                                                  \cup (IF ok < InsertBatches(Len(new_articles))
                                                        THEN {"save"} ELSE {}),
                                     !.pc = "saved"]
       ELSE /\ store' = store
            /\ run' = [run EXCEPT !.pc = "saved"]
    /\ UNCHANGED <<is_connected, db_pc, db_ret, candidates, sel_limit, selected>>
    /\ UNCHANGED <<engineVars, cfVars, race, local_embedding>>

\* step 3: save_articles_batch(processed_articles, skip_noise) in a live run;
\* check_fails: the existence query raises; ok: the inserts that succeed
RunSave ==
    /\ run.pc = "classified"
    /\ IF run.live_mode
       THEN \E check_fails \in BOOLEAN :
            LET kept   == FilterNoise(run.processed_articles, run.skip_noise)
                hashes == IF is_connected THEN HashesOf(kept) ELSE <<>>
                new_articles == SaveNew(store, is_connected, run.processed_articles,
                                        run.skip_noise, check_fails)
            IN  /\ check_fails => hashes # <<>>
                /\ \E ok \in 0..InsertBatches(Len(new_articles)) :
                    LET rows == Inserted(DbRecords(new_articles), ok)
                    IN  /\ store' = InsertRows(store, rows)
                        /\ run' = [run EXCEPT
                                     !.checked = hashes,
                                     !.saved_count = Len(rows),
                                     !.failed = @ \cup (IF check_fails THEN {"check"} ELSE {})
                                                  \cup (IF ok < InsertBatches(Len(new_articles))
                                                        THEN {"save"} ELSE {}),
                                     !.pc = "saved"]
       ELSE /\ store' = store
            /\ run' = [run EXCEPT !.pc = "saved"]
    /\ UNCHANGED <<is_connected, db_pc, db_ret, candidates, sel_limit, selected>>
    /\ UNCHANGED <<engineVars, cfVars, race, local_embedding>>

\* step 4: get_diverse_top_picks(limit) in a live run, _simulate_selection
\* on the processed articles in a dry run; fails: the pending query raises
RunSelect ==
    /\ run.pc = "saved"
    /\ IF run.live_mode
       THEN \E fails \in BOOLEAN :
            /\ fails => is_connected
            /\ IF ~is_connected \/ fails
               THEN run' = [run EXCEPT !.final_selection = <<>>,
                                       !.failed = @ \cup (IF fails THEN {"select"} ELSE {}),
                                       !.pc = "selected"]
               ELSE \E cands \in PendingQuery(store, 0) :
                    run' = [run EXCEPT !.final_selection = SelectDiverse(cands, run.limit),
                                       !.pc = "selected"]
       ELSE LET cands == CandidatesOf("_simulate_selection", run.processed_articles)
                r     == SimulateLoop(<<>>, cands, run.limit)
            IN  run' = IF r.stalled
                       THEN [run EXCEPT !.pc = "hung"]
                       ELSE [run EXCEPT
                               !.final_selection = Backfill(r.selected, r.rest, cands, run.limit),
                               !.pc = "selected"]
    /\ UNCHANGED <<engineVars, cfVars, dbVars, race, local_embedding>>

\* step 5: mark_as_published(ids of the selection) in a live run with a
\* selection, and the return of the result; fails: the update raises
RunMark ==
    /\ run.pc = "selected"
    /\ IF run.live_mode /\ run.final_selection # <<>>
       THEN \E fails \in BOOLEAN :
            LET article_ids == Ids(run.final_selection)
            IN  IF ~is_connected \/ fails
                THEN /\ store' = store
                     /\ run' = [run EXCEPT !.published_count = 0,
                                           !.failed = @ \cup (IF fails THEN {"mark"} ELSE {}),
                                           !.pc = "done"]
                ELSE /\ store' = Publish(store, article_ids)
                     /\ run' = [run EXCEPT !.published_count = Cardinality(article_ids),
                                           !.pc = "done"]
       ELSE /\ store' = store
            /\ run' = [run EXCEPT !.pc = "done"]
    /\ UNCHANGED <<is_connected, db_pc, db_ret, candidates, sel_limit, selected>>
    /\ UNCHANGED <<engineVars, cfVars, race, local_embedding>>

\* the caller has the result; the articles of a live run are emitted
RunReturn ==
    /\ run.pc = "done"
    /\ run' = NoRun(IF run.live_mode
                    THEN run.emitted \cup Ids(run.final_selection)
                    ELSE run.emitted)
    /\ UNCHANGED <<engineVars, cfVars, dbVars, race, local_embedding>>

InitPipeline ==
    /\ EngineInit /\ CFIdle /\ RaceIdle /\ LocalIdle
    /\ store = <<>>
    /\ is_connected \in BOOLEAN
    /\ db_pc = "idle"
    /\ db_ret = 0
    /\ candidates = <<>>
    /\ sel_limit = 0
    /\ selected = <<>>
    /\ run = NoRun({})

NextPipeline == RunFetch \/ RunClassify \/ RunSave \/ RunSelect \/ RunMark \/ RunReturn

SpecPipeline == InitPipeline /\ [][NextPipeline]_vars

\* C22 as stated: an article whose fingerprint is in the store is not passed
\* to the classifier
C22_OnlyUnknownClassified ==
    run.pc = "classified" =>
        \A i \in 1..Len(run.processed_articles) :
            run.processed_articles[i].content_hash \notin StoredHashes(store)

\* C22: every fetched article is classified, also one whose fingerprint is
\* stored; the existence check comes after classification, in the save of a
\* live run, and is made on fingerprints of classified articles
C22_ClassifiedBeforeCheck ==
    /\ run.pc \in {"classified", "saved", "selected", "done", "hung"} =>
          /\ Len(run.processed_articles) = Len(run.raw_articles)
          /\ \A i \in 1..Len(run.raw_articles) :
                run.processed_articles[i].content_hash = run.raw_articles[i].content_hash
    /\ run.checked # <<>> =>
          /\ run.live_mode
          /\ run.pc \in {"saved", "selected", "done"}
          /\ Range(run.checked) \subseteq Hashes(run.processed_articles)

C22_Witness ==
    /\ run.pc = "saved"
    /\ run.checked # <<>>
    /\ "check" \notin run.failed
    /\ \E i \in 1..Len(run.processed_articles) :
          run.processed_articles[i].content_hash
              \in StoredHashes(SubSeq(store, 1, run.rows_before))

\* C24: the list parse_feeds returns holds every collected fingerprint once,
\* the article kept is the first collected with that fingerprint, and the
\* existence check is made later, on fingerprints of that list, none twice
C24_FirstOccurrenceKept ==
    /\ run.pc # "idle" =>
          /\ Hashes(run.raw_articles) = Hashes(run.all_articles)
          /\ \A i, j \in 1..Len(run.raw_articles) :
                run.raw_articles[i].content_hash = run.raw_articles[j].content_hash => i = j
          /\ \A k \in 1..Len(run.raw_articles) :
                \E i \in 1..Len(run.all_articles) :
                    /\ run.all_articles[i] = run.raw_articles[k]
                    /\ \A j \in 1..(i - 1) :
                          run.all_articles[j].content_hash # run.raw_articles[k].content_hash
    /\ run.checked # <<>> =>
          /\ run.pc \in {"saved", "selected", "done"}
          /\ Range(run.checked) \subseteq Hashes(run.raw_articles)
          /\ \A i, j \in 1..Len(run.checked) : run.checked[i] = run.checked[j] => i = j

C24_Witness ==
    /\ run.pc = "saved"
    /\ Len(run.all_articles) > Len(run.raw_articles)
    /\ run.all_articles[1].text # run.all_articles[2].text
    /\ run.checked # <<>>

\* the rows a live run's save has inserted
InsertedByRun == SubSeq(store, run.rows_before + 1, Len(store))

\* the records of rows or db_records that are not NOISE, without ids
NonNoise(rows) ==
    LET kept == SelectSeq(rows, LAMBDA r : r.category # "NOISE")
    IN  [i \in 1..Len(kept) |->
            [content_hash |-> kept[i].content_hash, category |-> kept[i].category,
             score |-> kept[i].score, status |-> kept[i].status]]

\* C25: a save with skip_noise inserts no NOISE row, and when no insert
\* fails the rows it inserts that are not NOISE are those the same save
\* would insert with skip_noise off
C25_SkipNoise ==
    (run.pc = "saved" /\ run.live_mode) =>
        /\ run.skip_noise => \A i \in 1..Len(InsertedByRun) : InsertedByRun[i].category # "NOISE"
        /\ "save" \notin run.failed =>
              NonNoise(InsertedByRun) =
                  NonNoise(DbRecords(SaveNew(SubSeq(store, 1, run.rows_before), is_connected,
                                             run.processed_articles, FALSE,
                                             "check" \in run.failed)))

C25_Witness ==
    /\ run.pc = "saved" /\ run.live_mode /\ run.skip_noise
    /\ "save" \notin run.failed
    /\ \E i \in 1..Len(run.processed_articles) : run.processed_articles[i].category = "NOISE"
    /\ run.saved_count = 1
    /\ run.rows_before > 0

\* C26 as stated: with the store not connected or a persistence operation
\* raising, the run ends with nothing saved and an empty selection
C26_FailureGivesEmpty ==
    (run.pc = "done" /\ run.live_mode /\ (~is_connected \/ run.failed # {})) =>
        /\ run.saved_count = 0
        /\ run.final_selection = <<>>
        /\ run.published_count = 0

\* C26: no persistence failure stops a live run, which never hangs; not
\* connected, nothing is checked, saved, selected or marked; a check that
\* raises counts as no stored fingerprint; a save whose insert raises
\* returns the count of the rows inserted before; a selection query that
\* raises gives an empty selection; an update that raises publishes nothing
C26_FailuresContained ==
    run.live_mode =>
        /\ run.pc # "hung"
        /\ ~is_connected =>
              /\ store = <<>> /\ run.checked = <<>> /\ run.saved_count = 0
              /\ run.final_selection = <<>> /\ run.published_count = 0
        /\ run.pc \in {"saved", "selected", "done"} =>
              /\ run.saved_count = Len(InsertedByRun)
              /\ ("check" \in run.failed /\ "save" \notin run.failed) =>
                    run.saved_count = Len(run.checked)
              /\ "save" \in run.failed => run.saved_count < Len(run.checked)
        /\ "select" \in run.failed => run.final_selection = <<>>
        /\ "mark" \in run.failed =>
              /\ run.published_count = 0
              /\ \A i \in 1..Len(store) :
                    store[i].id \in Ids(run.final_selection) => store[i].status = "pending"

C26_Witness ==
    /\ run.pc = "done" /\ run.live_mode
    /\ {"check", "save", "mark"} \subseteq run.failed
    /\ run.saved_count > 0
    /\ run.final_selection # <<>>

\* C30: no article is in the final selection of two live runs
C30_NeverSelectedTwice ==
    (run.pc = "done" /\ run.live_mode) => Ids(run.final_selection) \cap run.emitted = {}

\* C35: collected articles whose (title, link) pairs differ have different
\* fingerprints, so that parse_feeds returns an article for each pair
C35_DistinctPairsDistinctFingerprints ==
    run.pc \in {"collecting", "returned"} =>
        /\ \A i, j \in 1..Len(run.all_articles) :
              (\/ run.all_articles[i].title # run.all_articles[j].title
               \/ run.all_articles[i].link # run.all_articles[j].link)
              => run.all_articles[i].content_hash # run.all_articles[j].content_hash
        /\ run.pc = "returned" =>
              \A i \in 1..Len(run.all_articles) :
                  \E k \in 1..Len(run.unique_articles) :
                      /\ run.unique_articles[k].title = run.all_articles[i].title
                      /\ run.unique_articles[k].link = run.all_articles[i].link

\* C37: a dry run makes no persistence call: no step of it changes the
\* store, and it checks no fingerprint, saves and publishes nothing
C37_DryRunLeavesStore ==
    [][/\ (~run.live_mode /\ run.pc # "idle") => store' = store
       /\ (~run'.live_mode /\ run'.pc # "idle") =>
             /\ store' = store
             /\ run'.checked = <<>> /\ run'.failed = {}
             /\ run'.saved_count = 0 /\ run'.published_count = 0]_vars

C37_Witness ==
    /\ run.pc = "done" /\ ~run.live_mode
    /\ run.final_selection # <<>>
    /\ \E i \in 1..Len(store) : store[i].status = "pending"
    /\ Len(store) = run.rows_before

\* a store whose pending rows are exactly the articles of a pool
StoreOf(pool) ==
    [i \in 1..Len(pool) |->
        [id |-> pool[i].id, content_hash |-> NoHash, category |-> pool[i].category,
         score |-> pool[i].score, status |-> "pending"]]

\* the lists get_diverse_top_picks(limit) can return over that store
LivePicks(pool, limit) ==
    {SelectDiverse(cands, limit) : cands \in PendingQuery(StoreOf(pool), 0)}

\* C31: on a pool without NOISE, with every score above the threshold,
\* _simulate_selection ends and returns the list get_diverse_top_picks
\* returns over a store whose pending rows are that pool
C31_DryEqualsLive ==
    (/\ run.routine = "_simulate_selection"
     /\ \A i \in 1..Len(run.candidates) : run.candidates[i].score > 0) =>
        /\ (run.pc = "loop" /\ LoopCondition(run)) =>
              Len(PassOver(PriorityOrder, run.selected, run.rest, 1, run.limit).selected)
                  > Len(run.selected)
        /\ run.pc = "returned" => LivePicks(run.candidates, run.limit) = {run.selected}

\* the number of items of category c among the first n of a list
TakenBefore(items, n, c) == Cardinality({i \in 1..n : items[i].category = c})

\* the pass in which the item at position i of the selection was taken
RoundOf(items, i) == TakenBefore(items, i, items[i].category)

\* C32: while get_diverse_top_picks is in its round-robin loop, the selection
\* is pass after pass, each pass in ascending priority rank with one item a
\* category, so a priority category is two or more items behind another only
\* when its bucket is empty
C32_RoundRobinFair ==
    (run.routine = "get_diverse_top_picks" /\ run.pc \in {"loop", "after_loop"}) =>
        /\ \A i \in 1..Len(run.selected) : run.selected[i].category \in Range(PriorityOrder)
        /\ \A i, j \in 1..Len(run.selected) :
              i < j =>
                 \/ RoundOf(run.selected, i) < RoundOf(run.selected, j)
                 \/ /\ RoundOf(run.selected, i) = RoundOf(run.selected, j)
                    /\ Priority(run.selected[i].category) < Priority(run.selected[j].category)
        /\ \A c, d \in Range(PriorityOrder) :
              TakenBefore(run.selected, Len(run.selected), c) + 1
                  < TakenBefore(run.selected, Len(run.selected), d)
              => \A i \in 1..Len(run.rest) : run.rest[i].category # c

C32_Witness ==
    /\ run.routine = "get_diverse_top_picks" /\ run.pc = "after_loop"
    /\ Len(run.selected) = 3
    /\ run.selected[1].category = run.selected[3].category
    /\ run.selected[2].category # run.selected[1].category
    /\ Priority(run.selected[1].category) < Priority(run.selected[2].category)

\* C33: in the list get_diverse_top_picks returns no item is selected while a
\* candidate of its category with a higher score is left out, and the items
\* of one category are in falling order of score
C33_BestOfCategory ==
    db_pc = "selected" =>
        /\ \A i \in 1..Len(selected), k \in 1..Len(candidates) :
              (/\ candidates[k].category = selected[i].category
               /\ candidates[k].score > selected[i].score)
              => candidates[k].id \in Ids(selected)
        /\ \A i, j \in 1..Len(selected) :
              (i < j /\ selected[i].category = selected[j].category)
              => selected[i].score >= selected[j].score

C33_Witness ==
    /\ db_pc = "selected"
    /\ \E i \in 1..Len(selected), k \in 1..Len(candidates) :
          /\ candidates[k].category = selected[i].category
          /\ candidates[k].score < selected[i].score
          /\ candidates[k].id \notin Ids(selected)
    /\ \E i, j \in 1..Len(selected) : selected[i].category # selected[j].category

\* the selected list up to position m is round-robin picks in their order of
\* selection: priority categories, pass after pass, each pass by rank
RoundRobinPrefix(items, m) ==
    /\ \A i \in 1..m : items[i].category \in Range(PriorityOrder)
    /\ \A i, j \in 1..m :
          i < j =>
             \/ RoundOf(items, i) < RoundOf(items, j)
             \/ /\ RoundOf(items, i) = RoundOf(items, j)
                /\ Priority(items[i].category) < Priority(items[j].category)

\* the selected list after position m is backfill picks: categories outside
\* the priority order, in falling order of score
BackfillSuffix(items, m) ==
    /\ \A i \in (m + 1)..Len(items) : items[i].category \notin Range(PriorityOrder)
    /\ \A i, j \in (m + 1)..Len(items) : i < j => items[i].score >= items[j].score

\* C34: the list returned is the round-robin picks in their order of
\* selection, then the backfill picks by falling score; when there is a
\* backfill pick every candidate of a priority category was picked before it
C34_RoundRobinThenBackfill ==
    db_pc = "selected" =>
        \E m \in 0..Len(selected) :
            /\ RoundRobinPrefix(selected, m)
            /\ BackfillSuffix(selected, m)
            /\ m < Len(selected) =>
                  \A k \in 1..Len(candidates) :
                      candidates[k].category \in Range(PriorityOrder)
                      => \E i \in 1..m : selected[i].id = candidates[k].id

C34_Witness ==
    /\ db_pc = "selected"
    /\ Len(selected) = 3
    /\ selected[1].score < selected[2].score
    /\ selected[3].category \notin Range(PriorityOrder)
    /\ selected[3].score > selected[1].score

\* C36: once the anchors are initialized, either anchor_method names a tier
\* and anchor_embeddings holds one vector for each category of
\* CATEGORY_ANCHORS, or anchor_method is regex and there is no catalog
C36_WholeCatalogOrNone ==
    engine_pc # "new" =>
        \/ /\ anchor_method \in {"cloudflare", "local"}
           /\ anchor_embeddings # None
           /\ Len(anchor_embeddings) = NCat
        \/ /\ anchor_method = "regex"
           /\ anchor_embeddings = None

\* C39: the anchor catalog is written during construction only: no call of
\* process_articles, and no return from one, changes anchor_embeddings or
\* anchor_method, whatever the tiers return for the batch
C39_CatalogWrittenOnce ==
    [][engine_pc # "new" =>
          /\ anchor_embeddings' = anchor_embeddings
          /\ anchor_method' = anchor_method]_vars

C39_Witness ==
    /\ engine_pc = "returned"
    /\ anchor_method = "cloudflare"
    /\ anchor_embeddings # None
    /\ Len(calls) = 2
    /\ ~calls[1].yielded /\ ~calls[2].yielded
    /\ Len(processed) >= 1

(***************************************************************************)
(* LocalEmbedding: construction, then any sequence of generate_embeddings  *)
(* calls.  model is None or the instance SentenceTransformer(...) built,   *)
(* instances being numbered as they are built; loaded counts them and     *)
(* attempts the constructions tried; ncalls counts the calls; asked: a     *)
(* call has needed the model; used: the instance that encoded the texts    *)
(* of the last call.                                                       *)
(***************************************************************************)
\* most generate_embeddings calls on one LocalEmbedding
MaxCalls == 4

\* LOCAL_AI_CONFIG["primary_model"]
primary_model == "all-MiniLM-L6-v2"

\* the test of _load_model
NeedsLoad(l, model_name) == IsNone(l.model) \/ l.model_name # Some(model_name)

\* a _load_model that builds a new instance on every call
LoadModel_always(l, model_name) ==
    [l EXCEPT !.model = Some(l.loaded + 1),
              !.model_name = Some(model_name),
              !.loaded = @ + 1,
              !.attempts = @ + 1]

\* _load_model when SentenceTransformer(model_name) does not raise
LoadModel(l, model_name) ==
    IF NeedsLoad(l, model_name)
    THEN [l EXCEPT !.model = Some(l.loaded + 1),
                   !.model_name = Some(model_name),
                   !.loaded = @ + 1,
                   !.attempts = @ + 1]
    ELSE l

\* LocalEmbedding.generate_embeddings as one call on n texts; load_ok: the
\* model loads when it has to; encoded: what model.encode gives, None when
\* it raises
LocalGenerate ==
    /\ local_embedding.pc = "idle"
    /\ local_embedding.ncalls < MaxCalls
    /\ \E n \in 0..MaxBatch, load_ok \in BOOLEAN :
        LET called == [local_embedding EXCEPT !.pc = "returned", !.ncalls = @ + 1]
        IN  IF ~called.is_available \/ n = 0
            THEN local_embedding' = [called EXCEPT !.result = None, !.used = None]
            ELSE IF NeedsLoad(called, primary_model) /\ ~load_ok
            THEN local_embedding' = [called EXCEPT !.result = None, !.used = None,
                                                   !.attempts = @ + 1, !.asked = TRUE]
            ELSE \E encoded \in LocalOutcomes(n) :
                 LET l == LoadModel(called, primary_model)
                 IN  local_embedding' =
                        [l EXCEPT !.result = encoded,
                                  !.used = IF IsNone(encoded) THEN None ELSE l.model,
                                  !.asked = TRUE]
    /\ UNCHANGED <<engineVars, cfVars, dbVars, race, run>>

\* the caller takes the value returned
LocalReturn ==
    /\ local_embedding.pc = "returned"
    /\ local_embedding' = [local_embedding EXCEPT !.pc = "idle", !.result = None,
                                                  !.used = None]
    /\ UNCHANGED <<engineVars, cfVars, dbVars, race, run>>

\* LocalEmbedding(): the library is installed or not, no model is loaded
InitLocal ==
    /\ EngineInit /\ CFIdle /\ DBIdle /\ RaceIdle /\ RunIdle
    /\ local_embedding \in [pc : {"idle"}, is_available : BOOLEAN, model : {None},
                            model_name : {None}, loaded : {0}, attempts : {0},
                            ncalls : {0}, asked : {FALSE}, result : {None}, used : {None}]

NextLocal == LocalGenerate \/ LocalReturn

SpecLocal == InitLocal /\ [][NextLocal]_vars

\* C38: no model is loaded before a generate_embeddings call needs one; the
\* model is built at most once, the call that gives vectors has encoded with
\* that one instance, and a model once loaded stays
C38_LoadedOnceOnFirstUse ==
    /\ ~local_embedding.asked => (IsNone(local_embedding.model) /\ local_embedding.attempts = 0)
    /\ local_embedding.loaded <= local_embedding.attempts
    /\ local_embedding.loaded <= 1
    /\ local_embedding.loaded = 1 <=> local_embedding.model = Some(1)
    /\ local_embedding.loaded = 0 <=> IsNone(local_embedding.model)
    /\ ~IsNone(local_embedding.result) => local_embedding.used = Some(1)

C38_Witness ==
    /\ local_embedding.pc = "returned"
    /\ local_embedding.loaded = 1
    /\ local_embedding.used = Some(1)
    /\ Len(Val(local_embedding.result)) = MaxBatch
    /\ local_embedding.attempts >= 2
    /\ local_embedding.ncalls = MaxCalls

====
